---- MODULE Spec2Model ----
(***************************************************************************)
(* A model of the gusty compiler front end (pkg/lang): Tokenize, Parse and *)
(* GenerateLLVMIR.  Source text is a sequence of one-character strings, a  *)
(* token is a record [Type, Value] whose Value is a sequence of characters *)
(* (empty for every token but an identifier), token indexes are 0-based as *)
(* in the Go code.  A Go panic (index out of range, failed type assertion) *)
(* is the outcome "panic", a loop that can never leave is "hang".          *)
(***************************************************************************)
EXTENDS Integers, Sequences, FiniteSets, TLC

(***************************************************************************)
(* tokenizer.go: token values, runes and types                             *)
(***************************************************************************)
TokenWhile == <<"w", "h", "i", "l", "e">>
TokenLet == <<"l", "e", "t">>
TokenInteger32 == <<"i", "3", "2">>
TokenFunction == <<"f", "u", "n", "c", "t", "i", "o", "n">>
TokenOpenParenthesis == "("
TokenCloseParenthesis == ")"
TokenOpenCurlyBracket == "{"
TokenCloseCurlyBracket == "}"
TokenComma == ","
TokenEquals == "="

TokenWhileType == "while"
TokenLetType == "let"
TokenFunctionType == "function"
TokenOpenParenthesisType == "("
TokenCloseParenthesisType == ")"
TokenOpenCurlyBracketType == "{"
TokenCloseCurlyBracketType == "}"
TokenIdentifierType == "identifier"
TokenEqualsType == "="
TokenInteger32Type == "i32"
TokenUnknown == "unknown"

\* Token types parser.go names; no Tokenize under pkg/lang produces them.
TokenForType == "for"
TokenAddType == "+"
TokenSemicolonType == ";"
TokenShortVariableAssignmentType == ":="
TokenLessThanType == "<"

\* The tokenType argument -1 of Parse and parseWhile: no token type at all.
NoTokenType == "none"

\* Token{Type: t}: the Value is the empty string.
Token(t) == [Type |-> t, Value |-> <<>>]
\* Token{Type: TokenIdentifierType, Value: word}
IdentifierToken(word) == [Type |-> TokenIdentifierType, Value |-> word]

isBracket(r) == r = TokenOpenParenthesis \/ r = TokenCloseParenthesis
isCurly(r) == r = TokenOpenCurlyBracket \/ r = TokenCloseCurlyBracket
isComma(r) == r = TokenComma
isEqual(r) == r = TokenEquals
\* A test for the blank alone.
IsBlank(r) == r = " "

\* unicode.IsSpace on the characters the inputs use
IsSpace(r) == r \in {" ", "\t", "\n", "\r"}

\* A flush at a comma that knows no keyword.
FlushAtCommaAsIdentifier(word) == IdentifierToken(word)

\* The four word classifications of Tokenize, one per place a word is flushed.
FlushAtComma(word) ==
  IF word = TokenInteger32 THEN Token(TokenInteger32Type) ELSE IdentifierToken(word)

FlushAtSpace(word) ==
  CASE word = TokenWhile -> Token(TokenWhileType)
    [] word = TokenLet -> Token(TokenLetType)
    [] word = TokenFunction -> Token(TokenFunctionType)
    [] word = TokenInteger32 -> Token(TokenInteger32Type)
    [] OTHER -> IdentifierToken(word)

FlushAtCurly(word) ==
  CASE word = TokenWhile -> Token(TokenWhileType)
    [] word = TokenLet -> Token(TokenLetType)
    [] OTHER -> IdentifierToken(word)

FlushAtBracket(word) ==
  IF word = TokenInteger32 THEN Token(TokenInteger32Type) ELSE IdentifierToken(word)

FlushAtEnd(word) ==
  CASE word = TokenWhile -> Token(TokenWhileType)
    [] word = TokenLet -> Token(TokenLetType)
    [] word = TokenFunction -> Token(TokenFunctionType)
    [] OTHER -> IdentifierToken(word)

\* The token a curly or a bracket rune emits for itself.
RuneToken(r) ==
  CASE r = TokenOpenParenthesis -> Token(TokenOpenParenthesisType)
    [] r = TokenCloseParenthesis -> Token(TokenCloseParenthesisType)
    [] r = TokenOpenCurlyBracket -> Token(TokenOpenCurlyBracketType)
    [] r = TokenCloseCurlyBracket -> Token(TokenCloseCurlyBracketType)

\* The body of the rune loop of Tokenize for rune r, on the tokens emitted
\* so far and the pending word buffer sb.
\* A flush that emits the word's token also when the buffer is empty.
FlushedAlways(st, tok) == Append(st.tokens, tok)

Flushed(st, tok) == IF Len(st.sb) > 0 THEN Append(st.tokens, tok) ELSE st.tokens

TokenizeRune(st, r) ==
  IF isComma(r)
  THEN [tokens |-> Flushed(st, FlushAtComma(st.sb)), sb |-> <<>>]
  ELSE IF isEqual(r)
  THEN [tokens |-> Append(st.tokens, Token(TokenEqualsType)), sb |-> st.sb]
  ELSE IF IsSpace(r)
  THEN [tokens |-> Flushed(st, FlushAtSpace(st.sb)), sb |-> <<>>]
  ELSE IF isCurly(r)
  THEN [tokens |-> Append(Flushed(st, FlushAtCurly(st.sb)), RuneToken(r)), sb |-> <<>>]
  ELSE IF isBracket(r)
  THEN [tokens |-> Append(Flushed(st, FlushAtBracket(st.sb)), RuneToken(r)), sb |-> <<>>]
  ELSE [tokens |-> st.tokens, sb |-> Append(st.sb, r)]

\* The rune loop over input[lo..hi], left to right (split in halves to keep
\* the evaluation shallow).
RECURSIVE TokenizeRunes(_, _, _, _)
TokenizeRunes(input, lo, hi, st) ==
  IF lo > hi THEN st
  ELSE IF lo = hi THEN TokenizeRune(st, input[lo])
  ELSE LET mid == (lo + hi) \div 2
           left == TokenizeRunes(input, lo, mid, st)
       IN TokenizeRunes(input, mid + 1, hi, left)

\* Tokenize: the rune loop, then the flush of a trailing word.
Tokenize(input) ==
  LET st == TokenizeRunes(input, 1, Len(input), [tokens |-> <<>>, sb |-> <<>>])
  IN Flushed(st, FlushAtEnd(st.sb))

(***************************************************************************)
(* strconv.Atoi and the int32 conversion                                   *)
(***************************************************************************)
DigitChars == <<"0", "1", "2", "3", "4", "5", "6", "7", "8", "9">>
IsDigit(c) == \E d \in 1..10 : DigitChars[d] = c
DigitVal(c) == (CHOOSE d \in 1..10 : DigitChars[d] = c) - 1

\* The digits of a literal without its sign.
Unsigned(word) ==
  IF Len(word) > 0 /\ word[1] \in {"+", "-"} THEN Tail(word) ELSE word

\* strconv.Atoi succeeds on an optional sign followed by one or more decimal
\* digits (the literals of the inputs stay inside the range of int).
AtoiOk(word) ==
  /\ Len(Unsigned(word)) > 0
  /\ \A k \in 1..Len(Unsigned(word)) : IsDigit(Unsigned(word)[k])

\* The magnitude of a literal modulo 2^32, as two 16-bit halves <<hi, lo>>.
RECURSIVE Magnitude32(_, _, _)
Magnitude32(digits, k, acc) ==
  IF k > Len(digits) THEN acc
  ELSE LET lo == acc[2] * 10 + DigitVal(digits[k])
           hi == acc[1] * 10 + (lo \div 65536)
       IN Magnitude32(digits, k + 1, <<hi % 65536, lo % 65536>>)

\* Two's complement negation modulo 2^32.
Negate32(h) ==
  IF h[2] = 0 THEN <<(65536 - h[1]) % 65536, 0>> ELSE <<65535 - h[1], 65536 - h[2]>>

\* The halves read as a signed 32-bit integer.
Signed32(h) ==
  IF h[1] >= 32768 THEN (h[1] - 65536) * 65536 + h[2] ELSE h[1] * 65536 + h[2]

\* A conversion that clears bit 31 instead of reading it as the sign.
Int32OfAtoiClearingTopBit(word) ==
  LET m == Magnitude32(Unsigned(word), 1, <<0, 0>>)
      h == IF Len(word) > 0 /\ word[1] = "-" THEN Negate32(m) ELSE m
  IN (h[1] % 32768) * 65536 + h[2]

\* int32(intValue) for the intValue strconv.Atoi(word) returns.
Int32OfAtoi(word) ==
  LET m == Magnitude32(Unsigned(word), 1, <<0, 0>>)
  IN Signed32(IF Len(word) > 0 /\ word[1] = "-" THEN Negate32(m) ELSE m)

(***************************************************************************)
(* parser.go: the nodes of the abstract syntax tree                        *)
(***************************************************************************)
Integer32Type == 0

\* A value of Go type any: an int32, a string, or no value at all.
Int32Value(n) == [t |-> "int32", v |-> n]
StringValue(word) == [t |-> "string", v |-> word]
NilValue == [t |-> "nil", v |-> 0]

\* A nil node, a nil node list, a nil error.
Nil == [node |-> "nil"]
NoError == [msg |-> "", pos |-> -1]

LetNode(name, value) == [node |-> "Let", Identifier |-> name, Value |-> value]
AddOperationNode(left, right) ==
  [node |-> "Add", LeftValue |-> left, RightValue |-> right]
Parameter(name, type, value) == [Identifier |-> name, Type |-> type, Value |-> value]
WhileNode(condition, body) == [node |-> "While", Condition |-> condition, Body |-> body]
FunctionNode(name, parameters, body) ==
  [node |-> "Function", Name |-> name, Parameters |-> parameters, Body |-> body]
CallerNode(name, parameters, isOp, add) ==
  [node |-> "Caller", FunctionName |-> name, Parameters |-> parameters,
   isParameterOperation |-> isOp, AddOperationNode |-> add]
ForNode(init, condition, post, body) ==
  [node |-> "For", Init |-> init, Condition |-> condition, Post |-> post, Body |-> body]

(***************************************************************************)
(* parser.go: the token predicates.  Every one of them is TRUE for an      *)
(* index at or past the end of the tokens, the positive ones included.     *)
(***************************************************************************)
TokenAt(tokens, index) == tokens[index + 1]
OutOfRange(index, tokens) == index >= Len(tokens)

IsNotLessThanToken(i, tokens) ==
  OutOfRange(i, tokens) \/ TokenAt(tokens, i).Type # TokenLessThanType
IsNotSemicolonToken(i, tokens) ==
  OutOfRange(i, tokens) \/ TokenAt(tokens, i).Type # TokenSemicolonType
IsNotShortVariableAssigmentToken(i, tokens) ==
  OutOfRange(i, tokens) \/ TokenAt(tokens, i).Type # TokenShortVariableAssignmentType
IsNotForToken(i, tokens) ==
  OutOfRange(i, tokens) \/ TokenAt(tokens, i).Type # TokenForType
IsOpenParenthesisToken(i, tokens) ==
  OutOfRange(i, tokens) \/ TokenAt(tokens, i).Type = TokenOpenParenthesisType
IsNotOpenParenthesisToken(i, tokens) ==
  OutOfRange(i, tokens) \/ TokenAt(tokens, i).Type # TokenOpenParenthesisType
IsNotCloseParenthesisToken(i, tokens) ==
  OutOfRange(i, tokens) \/ TokenAt(tokens, i).Type # TokenCloseParenthesisType
IsNotOpenCurlyBracketToken(i, tokens) ==
  OutOfRange(i, tokens) \/ TokenAt(tokens, i).Type # TokenOpenCurlyBracketType
IsNotCloseCurlyBracketToken(i, tokens) ==
  OutOfRange(i, tokens) \/ TokenAt(tokens, i).Type # TokenCloseCurlyBracketType
IsIdentifierToken(i, tokens) ==
  OutOfRange(i, tokens) \/ TokenAt(tokens, i).Type = TokenIdentifierType
IsNotIdentifierToken(i, tokens) ==
  OutOfRange(i, tokens) \/ TokenAt(tokens, i).Type # TokenIdentifierType
IsNotEqualToken(i, tokens) ==
  OutOfRange(i, tokens) \/ TokenAt(tokens, i).Type # TokenEqualsType
IsInteger32Token(i, tokens) ==
  OutOfRange(i, tokens) \/ TokenAt(tokens, i).Type # TokenInteger32Type
IsNotAddToken(i, tokens) ==
  OutOfRange(i, tokens) \/ TokenAt(tokens, i).Type # TokenAddType
IsAddToken(i, tokens) ==
  OutOfRange(i, tokens) \/ TokenAt(tokens, i).Type = TokenAddType

(***************************************************************************)
(* parser.go: the productions.  A production returns                       *)
(*   [kind |-> "ok", node, index]   the node and the index after it,       *)
(*   [kind |-> "err", err]          (nil, -1, err),                        *)
(*   [kind |-> "panic"]             a read of tokens[i] with i out of range*)
(*   [kind |-> "hang"]              a loop in its body never ends.         *)
(***************************************************************************)
Ok(n, i) == [kind |-> "ok", node |-> n, index |-> i, err |-> NoError]
Err(m, p) == [kind |-> "err", node |-> Nil, index |-> -1, err |-> [msg |-> m, pos |-> p]]
Panic == [kind |-> "panic", node |-> Nil, index |-> -1, err |-> NoError]
Hang == [kind |-> "hang", node |-> Nil, index |-> -1, err |-> NoError]

\* What parseNodes returns: (nodes, index, nil), (nil, -1, err), or nothing.
\* The flag nil tells the nil list of an error from the empty list []Node{}.
NodesOk(ns, i) ==
  [kind |-> "ok", nil |-> FALSE, nodes |-> ns, index |-> i, err |-> NoError]
NodesOf(r) ==
  [kind |-> r.kind, nil |-> TRUE, nodes |-> <<>>, index |-> -1, err |-> r.err]

\* The one element of a set { e(x) : x \in {v} }: e with v computed once.
Once(S) == CHOOSE r \in S : TRUE

\* tokens[index:]
SliceFrom(tokens, index) == SubSeq(tokens, index + 1, Len(tokens))

RECURSIVE parseNodes(_, _, _, _)

parseLet(tokens, index) ==
  LET i1 == index + 1 IN
  IF IsNotIdentifierToken(i1, tokens)
  THEN Err("expected identifier after 'let' at position", i1)
  ELSE LET name == TokenAt(tokens, i1).Value
           i2 == i1 + 1
       IN IF IsNotEqualToken(i2, tokens)
          THEN Err("expected '=' after let at position", i2)
          ELSE LET i3 == i2 + 1 IN
               IF OutOfRange(i3, tokens) THEN Panic
               ELSE IF ~AtoiOk(TokenAt(tokens, i3).Value)
               THEN Err("expected 'int' after equal condition at position", i3)
               ELSE Ok(LetNode(name, Int32Value(Int32OfAtoi(TokenAt(tokens, i3).Value))),
                       i3 + 1)

parseAddOperation(tokens, index) ==
  IF IsNotIdentifierToken(index, tokens)
  THEN Err("expected 'identifier' at start", index)
  ELSE IF ~AtoiOk(TokenAt(tokens, index).Value)
  THEN Err("expected 'int' as value at position", index)
  ELSE LET i1 == index + 1 IN
       IF IsNotAddToken(i1, tokens)
       THEN Err("expected 'add sign' after 'identifier' at position", i1)
       ELSE LET i2 == i1 + 1 IN
            IF IsNotIdentifierToken(i2, tokens)
            THEN Err("expected 'identifier' after 'add sign' at position", i2)
            ELSE IF ~AtoiOk(TokenAt(tokens, i2).Value)
            THEN Err("expected 'int' as value at position", i2)
            ELSE Ok(AddOperationNode(Int32Value(Int32OfAtoi(TokenAt(tokens, index).Value)),
                                     Int32Value(Int32OfAtoi(TokenAt(tokens, i2).Value))),
                    i2 + 1)

\* An argument that carries its text whatever the text is.
CallerParameterAsText(tokens, index) ==
  Parameter(TokenAt(tokens, index).Value, Integer32Type, StringValue(TokenAt(tokens, index).Value))

\* The argument of a plain call made from the token at index.
CallerParameter(tokens, index) ==
  LET word == TokenAt(tokens, index).Value IN
  IF AtoiOk(word)
  THEN Parameter(word, Integer32Type, Int32Value(Int32OfAtoi(word)))
  ELSE Parameter(word, Integer32Type, StringValue(word))

\* The argument loop of parseCaller: [kind, parameters, index].
RECURSIVE CallerParameters(_, _, _)
CallerParameters(tokens, index, parameters) ==
  IF IsIdentifierToken(index, tokens)
  THEN IF OutOfRange(index, tokens)
       THEN [kind |-> "panic", parameters |-> parameters, index |-> index]
       ELSE CallerParameters(tokens, index + 1,
                             Append(parameters, CallerParameter(tokens, index)))
  ELSE [kind |-> "ok", parameters |-> parameters, index |-> index]

\* The end of parseCaller: the ')' check and the node.
CallerClose(tokens, index, name, parameters, isOp, add) ==
  IF IsNotCloseParenthesisToken(index, tokens)
  THEN Err("expected ')' after parameters at position", index)
  ELSE Ok(CallerNode(name, parameters, isOp, add), index + 1)

parseCaller(tokens, index) ==
  LET name == TokenAt(tokens, index).Value
      i1 == index + 1
  IN IF IsNotOpenParenthesisToken(i1, tokens)
     THEN Err("expected '(' after caller at position", i1)
     ELSE LET i2 == i1 + 1 IN
          IF IsNotAddToken(i2 + 1, tokens)
          THEN LET ps == CallerParameters(tokens, i2, <<>>) IN
               IF ps.kind = "panic" THEN Panic
               ELSE CallerClose(tokens, ps.index, name, ps.parameters, FALSE, Nil)
          ELSE LET add == parseAddOperation(tokens, i2) IN
               IF add.kind # "ok" THEN add
               ELSE CallerClose(tokens, i2 + 3, name, <<>>, TRUE, add.node)

\* The parameter loop of parseFunction: [kind, parameters, index, err].
RECURSIVE FunctionParameters(_, _, _)
FunctionParameters(tokens, index, parameters) ==
  IF IsIdentifierToken(index, tokens)
  THEN IF OutOfRange(index, tokens)
       THEN [kind |-> "panic", parameters |-> parameters, index |-> index]
       ELSE IF IsInteger32Token(index + 1, tokens)
       THEN [kind |-> "err", parameters |-> parameters, index |-> index + 1]
       ELSE FunctionParameters(tokens, index + 2,
              Append(parameters,
                     Parameter(TokenAt(tokens, index).Value, Integer32Type, NilValue)))
  ELSE [kind |-> "ok", parameters |-> parameters, index |-> index]

\* A body parsed as a block that no '}' ends.
BodyResultOfBlock(tokens, index, tokenType) ==
  parseNodes(SliceFrom(tokens, index), 0, NoTokenType, <<>>)

\* The body of a production: parseNodes on the slice tokens[index:] from 0.
BodyResult(tokens, index, tokenType) == parseNodes(SliceFrom(tokens, index), 0, tokenType, <<>>)

parseFunction(tokens, index) ==
  LET i1 == index + 1 IN
  IF IsNotIdentifierToken(i1, tokens)
  THEN Err("expected identifier after 'function' at position", i1)
  ELSE LET name == TokenAt(tokens, i1).Value
           i2 == i1 + 1
       IN IF IsNotOpenParenthesisToken(i2, tokens)
          THEN Err("expected '(' after function name at position", i2)
          ELSE LET ps == FunctionParameters(tokens, i2 + 1, <<>>) IN
               IF ps.kind = "panic" THEN Panic
               ELSE IF ps.kind = "err"
               THEN Err("expected 'i32' after function parameter at position", ps.index)
               ELSE IF IsNotCloseParenthesisToken(ps.index, tokens)
               THEN Err("expected ')' after function parameters at position", ps.index)
               ELSE LET i3 == ps.index + 1 IN
                    IF IsNotOpenCurlyBracketToken(i3, tokens)
                    THEN Err("expected '{' after function parameters at position", i3)
                    ELSE Once({ IF body.kind # "ok"
                                THEN [kind |-> body.kind, node |-> Nil, index |-> -1,
                                      err |-> body.err]
                                ELSE LET i4 == i3 + 1 + body.index IN
                                     IF IsNotCloseCurlyBracketToken(i4, tokens)
                                     THEN Err("expected '}' after function body at position", i4)
                                     ELSE Ok(FunctionNode(name, ps.parameters, body.nodes),
                                             i4 + 1)
                                : body \in { BodyResult(tokens, i3 + 1, TokenFunctionType) } })

parseWhile(tokens, index) ==
  LET i1 == index + 1 IN
  IF IsNotOpenParenthesisToken(i1, tokens)
  THEN Err("expected '(' after 'while' at position", i1)
  ELSE IF OutOfRange(i1 + 2, tokens) THEN Panic
  ELSE LET condition == TokenAt(tokens, i1 + 2).Value
           i2 == i1 + 2
       IN IF IsNotCloseParenthesisToken(i2, tokens)
          THEN Err("expected ')' after while condition at position", i2)
          ELSE LET i3 == i2 + 1 IN
               IF IsNotOpenCurlyBracketToken(i3, tokens)
               THEN Err("expected '{' after while condition at position", i3)
               ELSE Once({ IF body.kind # "ok"
                           THEN [kind |-> body.kind, node |-> Nil, index |-> -1,
                                 err |-> body.err]
                           ELSE LET i4 == i3 + 1 + body.index IN
                                IF IsNotCloseCurlyBracketToken(i4, tokens)
                                THEN Err("expected '}' after while body at position", i4)
                                ELSE Ok(WhileNode(condition, body.nodes), i4 + 1)
                           : body \in { BodyResult(tokens, i3 + 1, NoTokenType) } })

\* parseFor from the token after the header: '{', the body, '}'.
ForBody(tokens, index, init, condition, post) ==
  IF IsNotOpenCurlyBracketToken(index, tokens)
  THEN Err("expected '{' after function parameters at position", index)
  ELSE Once({ IF body.kind # "ok"
              THEN [kind |-> body.kind, node |-> Nil, index |-> -1, err |-> body.err]
              ELSE LET i4 == index + 1 + body.index IN
                   IF IsNotCloseCurlyBracketToken(i4, tokens)
                   THEN Err("expected '}' after function body at position", i4)
                   ELSE Ok(ForNode(init, condition, post, body.nodes), i4 + 1)
              : body \in { BodyResult(tokens, index + 1, TokenForType) } })

\* parseFor from the token after '<': the bound, ';', the post statement.
ForCondition(tokens, index, init, left) ==
  IF OutOfRange(index, tokens) THEN Panic
  ELSE IF ~AtoiOk(TokenAt(tokens, index).Value)
  THEN Err("expected 'int' as value at position", index)
  ELSE LET right == Int32Value(Int32OfAtoi(TokenAt(tokens, index).Value))
           i1 == index + 1
       IN IF IsNotSemicolonToken(i1, tokens)
          THEN Err("expected ; after 'value' at position", i1)
          ELSE LET i2 == i1 + 1 IN
               IF IsNotIdentifierToken(i2, tokens)
               THEN Err("expected identifier after ';' at position", i2)
               ELSE LET i3 == i2 + 1 IN
                    IF IsNotAddToken(i3, tokens)
                    THEN Err("expected 'add sign' after 'identifier' at position", i3)
                    ELSE LET i4 == i3 + 1 IN
                         IF IsNotAddToken(i4, tokens)
                         THEN Err("expected 'add sign' after 'add sign' at position", i4)
                         ELSE ForBody(tokens, i4 + 1, init,
                                [LeftValue |-> left, Operator |-> "LessThanOperator",
                                 RightValue |-> right],
                                [Identifier |-> TokenAt(tokens, i2).Value, Increment |-> TRUE])

parseFor(tokens, index) ==
  IF IsNotForToken(index, tokens)
  THEN Err("expected 'for' at start", index)
  ELSE LET i1 == index + 1 IN
       IF IsNotIdentifierToken(i1, tokens)
       THEN Err("expected identifier after 'for' at position", i1)
       ELSE LET i2 == i1 + 1 IN
            IF IsNotShortVariableAssigmentToken(i2, tokens)
            THEN Err("expected := after 'identifier' at position", i2)
            ELSE LET i3 == i2 + 1 IN
                 IF IsNotIdentifierToken(i3, tokens)
                 THEN Err("expected identifier after ':=' at position", i3)
                 ELSE IF ~AtoiOk(TokenAt(tokens, i3).Value)
                 THEN Err("expected 'int' as value at position", i3)
                 ELSE LET i4 == i3 + 1 IN
                      IF IsNotSemicolonToken(i4, tokens)
                      THEN Err("expected ; after 'value' at position", i4)
                      ELSE LET i5 == i4 + 1 IN
                           IF IsNotIdentifierToken(i5, tokens)
                           THEN Err("expected identifier after ';' at position", i5)
                           ELSE LET i6 == i5 + 1 IN
                                IF IsNotLessThanToken(i6, tokens)
                                THEN Err("expected < after 'idenfifier' at position", i6)
                                ELSE ForCondition(tokens, i6 + 1,
                                       [Identifier |-> TokenAt(tokens, i1).Value,
                                        Value |-> Int32Value(Int32OfAtoi(TokenAt(tokens, i3).Value))],
                                       TokenAt(tokens, i5).Value)

(***************************************************************************)
(* parser.go: parseNodes.  ParseIteration is one pass through the body of  *)
(* its loop at an index inside the tokens:                                 *)
(*   "append"  a production returned a node; the loop goes on at index;    *)
(*   "next"    no node; the loop goes on at index (the same index when an  *)
(*             identifier is followed by neither '(' nor '+');             *)
(*   "return"  '}' of a function or for body: return nodes, index, nil;    *)
(*   "err", "panic", "hang"  the production's outcome.                     *)
(***************************************************************************)
Iteration(k, n, i, e) == [kind |-> k, node |-> n, index |-> i, err |-> e]

\* The statement a production returned, or its failure.
OfProduction(r) ==
  IF r.kind = "ok" THEN Iteration("append", r.node, r.index, NoError)
  ELSE Iteration(r.kind, Nil, -1, r.err)

ParseIteration(tokens, index, tokenType) ==
  LET token == TokenAt(tokens, index) IN
  CASE token.Type = TokenIdentifierType ->
         IF IsOpenParenthesisToken(index + 1, tokens)
         THEN OfProduction(parseCaller(tokens, index))
         ELSE IF IsAddToken(index + 1, tokens)
         THEN OfProduction(parseAddOperation(tokens, index))
         ELSE Iteration("next", Nil, index, NoError)
    [] token.Type = TokenCloseCurlyBracketType ->
         IF tokenType = TokenFunctionType THEN Iteration("return", Nil, index, NoError)
         ELSE IF tokenType = TokenForType THEN Iteration("return", Nil, index, NoError)
         ELSE Iteration("next", Nil, index + 1, NoError)
    [] token.Type = TokenLetType -> OfProduction(parseLet(tokens, index))
    [] token.Type = TokenWhileType -> OfProduction(parseWhile(tokens, index))
    [] token.Type = TokenFunctionType -> OfProduction(parseFunction(tokens, index))
    [] token.Type = TokenForType -> OfProduction(parseFor(tokens, index))
    [] OTHER -> Iteration("next", Nil, index + 1, NoError)

\* parseNodes run to its end from index with the nodes collected so far.  An
\* iteration that leaves index where it was repeats for ever: the loop reads
\* nothing but tokens, index and tokenType.
parseNodes(tokens, index, tokenType, nodes) ==
  IF index >= Len(tokens) THEN NodesOk(nodes, index)
  ELSE Once({ CASE it.kind = "append" ->
                     parseNodes(tokens, it.index, tokenType, Append(nodes, it.node))
                [] it.kind = "next" ->
                     IF it.index = index THEN NodesOf(Hang)
                     ELSE parseNodes(tokens, it.index, tokenType, nodes)
                [] it.kind = "return" -> NodesOk(nodes, index)
                [] OTHER -> NodesOf(it)
              : it \in { ParseIteration(tokens, index, tokenType) } })

\* Parse: (nodes, err) of parseNodes(tokens, 0, -1).
Parse(tokens) == parseNodes(tokens, 0, NoTokenType, <<>>)

(***************************************************************************)
(* IR.go: the module under construction.  A module is the sequence of its  *)
(* functions, main first, printf second, then the user functions in the   *)
(* order AddFunction made them; a function is [Name, Params, VarArg, Body], *)
(* Body the instructions the builder was asked for, in order.              *)
(* An instruction is [op, name, args]; a value is a constant, the result   *)
(* of the k-th instruction of the same function, an incoming argument, the *)
(* format-string global or a function.                                     *)
(***************************************************************************)
printfIndentifier == <<"p", "r", "i", "n", "t", "f">>
MainName == <<"m", "a", "i", "n">>

Const(n) == [k |-> "const", v |-> n]
Inst(i) == [k |-> "inst", v |-> i]
Arg(i) == [k |-> "arg", v |-> i]
FormatGlobal == [k |-> "global", v |-> 0]
Func(i) == [k |-> "func", v |-> i]

Instr(op, name, args) == [op |-> op, name |-> name, args |-> args]
\* CreateAlloca(llvm.Int32Type(), name) followed by SetAlignment(align)
Alloca(name, align) == [op |-> "alloca", name |-> name, args |-> <<>>, align |-> align]
Function(name, params, varArg, body) ==
  [Name |-> name, Params |-> params, VarArg |-> varArg, Body |-> body]

\* map[string]T: a function on the set of its keys.
EmptyMap == <<>>
Has(m, key) == key \in DOMAIN m
Put(m, key, val) == [x \in DOMAIN m \cup {key} |-> IF x = key THEN val ELSE m[x]]

\* newScope(); PreviousVariable 0 is the nil Value.
newScope ==
  [Callers |-> EmptyMap, Variables |-> EmptyMap, Arguments |-> EmptyMap,
   PreviousVariable |-> 0]

\* The error of a generate function: message and the name it mentions.
NoGenError == [msg |-> "", name |-> <<>>]
GenOk(scope, body) == [kind |-> "ok", scope |-> scope, body |-> body, err |-> NoGenError]
GenErr(scope, body, m, n) ==
  [kind |-> "err", scope |-> scope, body |-> body, err |-> [msg |-> m, name |-> n]]
GenPanic(scope, body) ==
  [kind |-> "panic", scope |-> scope, body |-> body, err |-> NoGenError]

\* generateAdd with the operands of the add instruction exchanged.
generateAddExchanged(scope, body, addOperationNode, variableName) ==
  IF addOperationNode.LeftValue.t # "int32"
  THEN GenErr(scope, body, "invalid value type for add operation node", <<>>)
  ELSE IF addOperationNode.RightValue.t # "int32"
  THEN GenErr(scope, body, "invalid value type for operation node", <<>>)
  ELSE GenOk([scope EXCEPT !.PreviousVariable = Len(body) + 2],
             body \o << Instr("add", <<>>, <<Const(addOperationNode.RightValue.v),
                                             Const(addOperationNode.LeftValue.v)>>),
                        Alloca(variableName, 4),
                        Instr("store", <<>>, <<Inst(Len(body) + 1), Inst(Len(body) + 2)>>) >>)

\* generateAdd that leaves a PreviousVariable that is set as it is.
generateAddKeepingPrevious(scope, body, addOperationNode, variableName) ==
  IF addOperationNode.LeftValue.t # "int32"
  THEN GenErr(scope, body, "invalid value type for add operation node", <<>>)
  ELSE IF addOperationNode.RightValue.t # "int32"
  THEN GenErr(scope, body, "invalid value type for operation node", <<>>)
  ELSE GenOk([scope EXCEPT !.PreviousVariable = IF @ = 0 THEN Len(body) + 2 ELSE @],
             body \o << Instr("add", <<>>, <<Const(addOperationNode.LeftValue.v),
                                             Const(addOperationNode.RightValue.v)>>),
                        Alloca(variableName, 4),
                        Instr("store", <<>>, <<Inst(Len(body) + 1), Inst(Len(body) + 2)>>) >>)

\* generateAdd: add, alloca under the generated name, store; the slot becomes
\* the scope's PreviousVariable.
generateAdd(scope, body, addOperationNode, variableName) ==
  IF addOperationNode.LeftValue.t # "int32"
  THEN GenErr(scope, body, "invalid value type for add operation node", <<>>)
  ELSE IF addOperationNode.RightValue.t # "int32"
  THEN GenErr(scope, body, "invalid value type for operation node", <<>>)
  ELSE LET v == Len(body) + 1
           resultAlloca == Len(body) + 2
       IN GenOk([scope EXCEPT !.PreviousVariable = resultAlloca],
                body \o << Instr("add", <<>>, <<Const(addOperationNode.LeftValue.v),
                                                Const(addOperationNode.RightValue.v)>>),
                           Alloca(variableName, 4),
                           Instr("store", <<>>, <<Inst(v), Inst(resultAlloca)>>) >>)

\* generateLet without the entry in the scope's Variables.
generateLetUnregistered(scope, body, letNode) ==
  IF letNode.Value.t = "int32"
  THEN GenOk(scope,
             body \o << Alloca(letNode.Identifier, 4),
                        Instr("store", <<>>, <<Const(letNode.Value.v), Inst(Len(body) + 1)>>) >>)
  ELSE GenErr(scope, body, "invalid value type for let node", letNode.Identifier)

\* generateLet: alloca under the identifier, store of the constant; the slot
\* is registered in the scope's Variables.
generateLet(scope, body, letNode) ==
  IF letNode.Value.t = "int32"
  THEN LET letNodeAlloca == Len(body) + 1 IN
       GenOk([scope EXCEPT !.Variables = Put(@, letNode.Identifier, letNodeAlloca)],
             body \o << Alloca(letNode.Identifier, 4),
                        Instr("store", <<>>, <<Const(letNode.Value.v), Inst(letNodeAlloca)>>) >>)
  ELSE GenErr(scope, body, "invalid value type for let node", letNode.Identifier)

\* The printf branch with the incoming arguments looked up before the local
\* variables.
generatePrintfArgumentsFirst(scope, body, callerNode, globals) ==
  LET withFormat == Append(body, Instr("gep", <<"f", "o", "r", "m", "a", "t">>, <<FormatGlobal>>))
      format == Inst(Len(body) + 1)
      value == Len(body) + 2
      printf == Func(globals.Callers[printfIndentifier].func)
  IN IF callerNode.isParameterOperation
     THEN GenOk([scope EXCEPT !.PreviousVariable = 0],
                withFormat \o << Instr("load", <<>>, <<Inst(scope.PreviousVariable)>>),
                                 Instr("call", <<>>, <<printf, format, Inst(value)>>) >>)
     ELSE IF Len(callerNode.Parameters) = 0 THEN GenPanic(scope, withFormat)
     ELSE LET id == callerNode.Parameters[1].Identifier IN
          IF Has(scope.Arguments, id)
          THEN GenOk(scope,
                     Append(withFormat,
                            Instr("call", <<>>, <<printf, format, Arg(scope.Arguments[id])>>)))
          ELSE IF Has(scope.Variables, id)
          THEN GenOk(scope,
                     withFormat \o << Instr("load", id \o <<"V", "a", "l", "u", "e">>,
                                            <<Inst(scope.Variables[id])>>),
                                      Instr("call", <<>>, <<printf, format, Inst(value)>>) >>)
          ELSE GenOk(scope, withFormat)

\* The printf branch of generateCaller, after the optional generateAdd.
generatePrintf(scope, body, callerNode, globals) ==
  LET withFormat == Append(body, Instr("gep", <<"f", "o", "r", "m", "a", "t">>, <<FormatGlobal>>))
      format == Inst(Len(body) + 1)
      value == Len(body) + 2
      printf == Func(globals.Callers[printfIndentifier].func)
  IN IF callerNode.isParameterOperation
     THEN GenOk([scope EXCEPT !.PreviousVariable = 0],
                withFormat \o << Instr("load", <<>>, <<Inst(scope.PreviousVariable)>>),
                                 Instr("call", <<>>, <<printf, format, Inst(value)>>) >>)
     ELSE IF Len(callerNode.Parameters) = 0 THEN GenPanic(scope, withFormat)
     ELSE LET id == callerNode.Parameters[1].Identifier IN
          IF Has(scope.Variables, id)
          THEN GenOk(scope,
                     withFormat \o << Instr("load", id \o <<"V", "a", "l", "u", "e">>,
                                            <<Inst(scope.Variables[id])>>),
                                      Instr("call", <<>>, <<printf, format, Inst(value)>>) >>)
          ELSE IF Has(scope.Arguments, id)
          THEN GenOk(scope,
                     Append(withFormat,
                            Instr("call", <<>>, <<printf, format, Arg(scope.Arguments[id])>>)))
          ELSE GenOk(scope, withFormat)

\* The constants of a call of a user function: one per parameter whose Type
\* is Integer32Type, its Value asserted to be an int32.
ParameterValues(parameters) ==
  [k \in 1..Len(parameters) |-> Const(parameters[k].Value.v)]

\* A call that is skipped when its caller is not in the scope.
generateCallIfFound(scope, body, callerNode) ==
  IF ~Has(scope.Callers, callerNode.FunctionName)
  THEN GenOk(scope, body)
  ELSE GenOk(scope,
             Append(body,
                    Instr("call", <<>>,
                          <<Func(scope.Callers[callerNode.FunctionName].func)>>
                            \o ParameterValues(callerNode.Parameters))))

\* The branch of generateCaller for every other name.
generateCall(scope, body, callerNode) ==
  IF ~Has(scope.Callers, callerNode.FunctionName)
  THEN GenErr(scope, body, "caller not found in scope", callerNode.FunctionName)
  ELSE IF \E k \in 1..Len(callerNode.Parameters) :
             /\ callerNode.Parameters[k].Type = Integer32Type
             /\ callerNode.Parameters[k].Value.t # "int32"
  THEN GenPanic(scope, body)
  ELSE GenOk(scope,
             Append(body,
                    Instr("call", <<>>,
                          <<Func(scope.Callers[callerNode.FunctionName].func)>>
                            \o ParameterValues(callerNode.Parameters))))

\* generateCaller with the name the one generateAdd it may call generates.
generateCaller(scope, body, callerNode, variableName, globals) ==
  LET added == IF callerNode.isParameterOperation
               THEN generateAdd(scope, body, callerNode.AddOperationNode, variableName)
               ELSE GenOk(scope, body)
  IN IF added.kind # "ok" THEN added
     ELSE IF callerNode.FunctionName = printfIndentifier
     THEN generatePrintf(added.scope, added.body, callerNode, globals)
     ELSE generateCall(added.scope, added.body, callerNode)

\* llvm.VerifyModule: a call must pass as many arguments as its callee takes
\* (one or more for the variadic printf).
CallIsConsistent(funcs, instr) ==
  LET callee == funcs[instr.args[1].v]
      passed == Len(instr.args) - 1
  IN IF callee.VarArg THEN passed >= callee.Params ELSE passed = callee.Params

VerifyModule(funcs) ==
  \A f \in 1..Len(funcs) : \A k \in 1..Len(funcs[f].Body) :
     funcs[f].Body[k].op = "call" => CallIsConsistent(funcs, funcs[f].Body[k])

(***************************************************************************)
(* The inputs: source texts (the inputs of the integration tests first),   *)
(* and token lists handed to Parse directly.                               *)
(***************************************************************************)
TextLet ==
  <<"l", "e", "t", " ", "d", "o", "n", "u", "t", "l", "o", "o", "p", " ",
    "=", " ", "4", "2">>

TextLetTight ==
  <<"l", "e", "t", " ", "x", "=", "5">>

TextAdd ==
  <<"p", "r", "i", "n", "t", "f", "(", "4", "2", " ", "+", " ", "4", "2", ")">>

TextFunction ==
  <<"f", "u", "n", "c", "t", "i", "o", "n", " ", "a", "d", "d", "(", "a",
    " ", "i", "3", "2", ",", " ", "b", " ", "i", "3", "2", ")", " ", "{",
    " ", "l", "e", "t", " ", "d", "o", "n", "u", "t", " ", "=", " ", "4",
    "3", " ", "p", "r", "i", "n", "t", "f", "(", "d", "o", "n", "u", "t",
    ")", " ", "p", "r", "i", "n", "t", "f", "(", "a", ")", " ", "}", " ",
    "a", "d", "d", "(", "1", ",", "2", ")">>

TextFor ==
  <<"f", "o", "r", " ", "i", " ", ":", "=", " ", "0", ";", " ", "i", " ",
    "<", " ", "1", "0", ";", " ", "i", "+", "+", " ", "{", " ", "p", "r",
    "i", "n", "t", "f", "(", "i", ")", " ", "}">>

TextWhile ==
  <<"w", "h", "i", "l", "e", " ", "(", "c", ")", " ", "{", " ", "l", "e",
    "t", " ", "x", " ", "=", " ", "1", " ", "}">>

TextCall ==
  <<"f", "u", "n", "c", "t", "i", "o", "n", " ", "f", "(", ")", " ", "{",
    " ", "}", " ", "f", "(", ")">>

TextNested ==
  <<"f", "u", "n", "c", "t", "i", "o", "n", " ", "f", "(", ")", " ", "{",
    " ", "}", " ", "f", "u", "n", "c", "t", "i", "o", "n", " ", "g", "(",
    ")", " ", "{", " ", "f", "(", ")", " ", "}">>

TextPrint ==
  <<"l", "e", "t", " ", "x", " ", "=", " ", "1", " ", "p", "r", "i", "n",
    "t", "f", "(", "x", ")", " ", "p", "r", "i", "n", "t", "f", "(", ")">>

\* Identifier tokens of the token lists.
Id(c) == IdentifierToken(<<c>>)
IdPrintf == IdentifierToken(printfIndentifier)

ForHeader ==
  << Token(TokenForType), Id("i"), Token(TokenShortVariableAssignmentType), Id("0"),
     Token(TokenSemicolonType), Id("i"), Token(TokenLessThanType), Id("2"),
     Token(TokenSemicolonType), Id("i"), Token(TokenAddType), Token(TokenAddType) >>

PrintOf(c) ==
  << IdPrintf, Token(TokenOpenParenthesisType), Id(c), Token(TokenCloseParenthesisType) >>

PrintAdd ==
  << IdPrintf, Token(TokenOpenParenthesisType), Id("1"), Token(TokenAddType), Id("2"),
     Token(TokenCloseParenthesisType) >>

LetOf(c, d) == << Token(TokenLetType), Id(c), Token(TokenEqualsType), Id(d) >>

CallOf(c, args) ==
  << Id(c), Token(TokenOpenParenthesisType) >> \o args \o << Token(TokenCloseParenthesisType) >>

FunctionOf(c, params, body) ==
  << Token(TokenFunctionType), Id(c), Token(TokenOpenParenthesisType) >> \o params
    \o << Token(TokenCloseParenthesisType), Token(TokenOpenCurlyBracketType) >> \o body
    \o << Token(TokenCloseCurlyBracketType) >>

ParamOf(c) == << Id(c), Token(TokenInteger32Type) >>

WhileOf(c, body) ==
  << Token(TokenWhileType), Token(TokenOpenParenthesisType), Id(c),
     Token(TokenCloseParenthesisType), Token(TokenOpenCurlyBracketType) >> \o body
    \o << Token(TokenCloseCurlyBracketType) >>

ForOf(body) ==
  ForHeader \o << Token(TokenOpenCurlyBracketType) >> \o body
    \o << Token(TokenCloseCurlyBracketType) >>

\* Literals outside the range of int32 and inside that of int.
WideOne == <<"4", "2", "9", "4", "9", "6", "7", "2", "9", "7">>
WideMin == <<"2", "1", "4", "7", "4", "8", "3", "6", "4", "8">>
WideMax == <<"-", "2", "1", "4", "7", "4", "8", "3", "6", "4", "9">>
WideZero == <<"4", "2", "9", "4", "9", "6", "7", "2", "9", "6">>
WideTwo == <<"4", "2", "9", "4", "9", "6", "7", "2", "9", "8">>

\* `let x = 4294967297 2147483648 + -2147483649
\*  for i := 4294967296; i < 2147483648; i++ { } function f(a i32) { } f(4294967298)`
WideProgram ==
  << Token(TokenLetType), Id("x"), Token(TokenEqualsType), IdentifierToken(WideOne),
     IdentifierToken(WideMin), Token(TokenAddType), IdentifierToken(WideMax),
     Token(TokenForType), Id("i"), Token(TokenShortVariableAssignmentType),
     IdentifierToken(WideZero), Token(TokenSemicolonType), Id("i"), Token(TokenLessThanType),
     IdentifierToken(WideMin), Token(TokenSemicolonType), Id("i"), Token(TokenAddType),
     Token(TokenAddType), Token(TokenOpenCurlyBracketType), Token(TokenCloseCurlyBracketType) >>
    \o FunctionOf("f", ParamOf("a"), <<>>) \o CallOf("f", << IdentifierToken(WideTwo) >>)

\* The token lists of well-formed programs.
TokenPrograms ==
  { LetOf("x", "1") \o PrintOf("x"),
    PrintAdd \o << Id("1"), Token(TokenAddType), Id("2") >>,
    WhileOf("c", <<>>),
    WhileOf("c", LetOf("x", "1")),
    ForOf(PrintOf("i")),
    FunctionOf("f", ParamOf("a"), LetOf("x", "1") \o PrintOf("x") \o PrintOf("a"))
      \o CallOf("f", << Id("1") >>),
    FunctionOf("f", <<>>, <<>>) \o FunctionOf("g", <<>>, CallOf("f", <<>>)),
    FunctionOf("f", ParamOf("a"), PrintAdd) \o LetOf("x", "1") \o CallOf("f", << Id("x") >>),
    FunctionOf("f", <<>>, <<>>) \o CallOf("f", << Id("1") >>) \o LetOf("x", "1"),
    CallOf("g", <<>>) \o LetOf("x", "1"),
    CallOf("f", <<>>) \o FunctionOf("f", <<>>, <<>>),
    FunctionOf("f", <<>>, <<>>)
      \o FunctionOf("g", <<>>, LetOf("f", "1") \o PrintOf("f") \o CallOf("f", <<>>)),
    FunctionOf("g", <<>>,
               << Token(TokenLetType), IdPrintf, Token(TokenEqualsType), Id("1"), IdPrintf,
                  Token(TokenOpenParenthesisType), IdPrintf, Token(TokenCloseParenthesisType) >>),
    FunctionOf("f", <<>>, ForOf(<<>>) \o PrintOf("1")) \o CallOf("f", <<>>),
    FunctionOf("f", <<>>, << Id("1"), Token(TokenAddType), Id("2") >>),
    FunctionOf("f", ParamOf("a"), LetOf("a", "1") \o PrintOf("a")),
    ForOf(FunctionOf("f", ParamOf("a"), LetOf("x", "1")) \o PrintOf("i")) \o LetOf("x", "1"),
    FunctionOf("f", <<>>, ForOf(ForOf(PrintOf("i")) \o LetOf("x", "1")) \o PrintAdd)
      \o ForOf(<<>>) \o CallOf("f", <<>>),
    << Id("2"), Token(TokenAddType), Id("2") >> \o FunctionOf("f", <<>>, <<>>)
      \o CallOf("f", << Id("1"), Token(TokenAddType), Id("2") >>) \o PrintAdd,
    WideProgram }

\* The token kinds a token of a list is replaced by.
TokenAlphabet ==
  { Token(t) : t \in { TokenWhileType, TokenLetType, TokenFunctionType,
                       TokenOpenParenthesisType, TokenCloseParenthesisType,
                       TokenOpenCurlyBracketType, TokenCloseCurlyBracketType,
                       TokenEqualsType, TokenInteger32Type, TokenUnknown, TokenForType,
                       TokenAddType, TokenSemicolonType, TokenShortVariableAssignmentType,
                       TokenLessThanType } }
    \cup { Id("a"), Id("1"), IdPrintf }

\* A program, cut off after any token, or with one token replaced.
Prefixes(p) == { SubSeq(p, 1, k) : k \in 0..Len(p) }
Replacements(p) == { [p EXCEPT ![k] = t] : k \in 1..Len(p), t \in TokenAlphabet }

\* Every token list of at most MaxShort tokens.
MaxShort == 2
ShortLists == UNION { [1..n -> TokenAlphabet] : n \in 0..MaxShort }

TokenLists ==
  ShortLists \cup UNION { Prefixes(p) \cup Replacements(p) : p \in TokenPrograms }

\* A text of white space only.
TextBlank == <<" ", "\t", "\n">>

Texts ==
  { TextLet, TextLetTight, TextAdd, TextFunction, TextFor, TextWhile, TextCall,
    TextNested, TextPrint, TextBlank }

\* A text, or a text cut off after any character.
TextInputs == UNION { Prefixes(t) : t \in Texts }

(***************************************************************************)
(* GenerateRandomIdentifier: uuid.New().String() unless a caller replaced  *)
(* the package variable by a function returning one fixed name.            *)
(***************************************************************************)
NumUUIDs == 2
UUIDs == { <<"u", DigitChars[n + 1]>> : n \in 1..NumUUIDs }
FixedIdentifier == <<"9", "b", "3", "c">>
GenerateRandomIdentifier(gen) == IF gen = "uuid" THEN UUIDs ELSE { FixedIdentifier }

(***************************************************************************)
(* The pipeline as a state machine                                         *)
(***************************************************************************)
\* The passes of the parseNodes loop of Parse one run may take.
MaxIterations == 8

VARIABLES
  input,       \* [kind, text]: the source text, or kind "tokens" for a token list
  generator,   \* the package variable GenerateRandomIdentifier: "uuid" or "fixed"
  run,         \* 1 for the first run of the pipeline, 2 for the second on the same
               \* input, 3 for a later run on another token list
  first,       \* what the first run returned
  pc,          \* where the pipeline is
  pos,         \* Tokenize: the next rune (1-based)
  sb,          \* Tokenize: the pending word
  tokens,      \* Tokenize: the tokens emitted; then the argument of Parse
  index,       \* parseNodes of Parse: its index
  iterations,  \* parseNodes of Parse: the passes of its loop so far
  nodes,       \* parseNodes of Parse: its nodes
  parsed,      \* what Parse returned: [nil, nodes, err]
  gi,          \* GenerateLLVMIR: i of the loop over nodes
  bi,          \* GenerateLLVMIR: the next node of the function body (0-based)
  funcs,       \* GenerateLLVMIR: the functions of the module
  mainFunctionScope,
  currentFunctionScope,
  globalScope, \* the package variable globalScope
  result       \* what GenerateLLVMIR returned: [ir, err]

vars ==
  << input, generator, run, first, pc, pos, sb, tokens, index, iterations, nodes,
     parsed, gi, bi, funcs, mainFunctionScope, currentFunctionScope, globalScope,
     result >>

lexVars == << pos, sb >>
parseVars == << index, iterations, nodes, parsed >>
genVars == << gi, bi, funcs, mainFunctionScope, currentFunctionScope, result >>

\* The empty string of IR text, and the values of variables not yet set.
EmptyIR == <<>>
NoResult == [ir |-> EmptyIR, err |-> NoGenError]
NoParsed == [nil |-> TRUE, nodes |-> <<>>, err |-> NoError]
NoFirst == [parsed |-> NoParsed, result |-> NoResult]

\* globalScope as the package's init() leaves it.
InitialGlobalScope == [Callers |-> EmptyMap, Variables |-> EmptyMap, Globals |-> EmptyMap]

\* The local state of a run before its first step, for the given tokens.
Fresh(tks) ==
  /\ pos = 1
  /\ sb = <<>>
  /\ tokens = tks
  /\ index = 0
  /\ iterations = 0
  /\ nodes = <<>>
  /\ parsed = NoParsed
  /\ gi = 0
  /\ bi = 0
  /\ funcs = <<>>
  /\ mainFunctionScope = newScope
  /\ currentFunctionScope = newScope
  /\ result = NoResult

Init ==
  /\ generator \in {"uuid", "fixed"}
  /\ run = 1
  /\ first = NoFirst
  /\ globalScope = InitialGlobalScope
  /\ \/ /\ input \in { [kind |-> "text", text |-> t] : t \in TextInputs }
        /\ pc = "Tokenize"
        /\ Fresh(<<>>)
     \/ /\ input = [kind |-> "tokens", text |-> <<>>]
        /\ pc = "Parse"
        /\ \E tks \in TokenLists : Fresh(tks)

(***************************************************************************)
(* Tokenize, one rune a step                                               *)
(***************************************************************************)
TokenizeStep ==
  /\ pc = "Tokenize"
  /\ pos <= Len(input.text)
  /\ LET st == TokenizeRune([tokens |-> tokens, sb |-> sb], input.text[pos]) IN
       /\ tokens' = st.tokens
       /\ sb' = st.sb
  /\ pos' = pos + 1
  /\ UNCHANGED << input, generator, run, first, pc, parseVars, genVars, globalScope >>

\* The flush of the trailing word and the return; the caller hands the tokens
\* to Parse.
TokenizeReturn ==
  /\ pc = "Tokenize"
  /\ pos > Len(input.text)
  /\ tokens' = Flushed([tokens |-> tokens, sb |-> sb], FlushAtEnd(sb))
  /\ pc' = "Parse"
  /\ UNCHANGED << input, generator, run, first, lexVars, parseVars, genVars, globalScope >>

(***************************************************************************)
(* Parse: parseNodes(tokens, 0, -1), one pass of its loop a step           *)
(***************************************************************************)
\* (nodes, err) of Parse when parseNodes returns nil, -1, err.
ParseFailed(ns, err) == [nil |-> TRUE, nodes |-> <<>>, err |-> err]
\* (nodes, err) of Parse when parseNodes returns nodes, index, nil.
ParseSucceeded(ns) == [nil |-> FALSE, nodes |-> ns, err |-> NoError]

ParseStep ==
  /\ pc = "Parse"
  /\ index < Len(tokens)
  /\ iterations < MaxIterations
  /\ iterations' = iterations + 1
  /\ LET it == ParseIteration(tokens, index, NoTokenType) IN
       CASE it.kind = "append" ->
              /\ nodes' = Append(nodes, it.node)
              /\ index' = it.index
              /\ UNCHANGED << pc, parsed >>
         [] it.kind = "next" ->
              /\ index' = it.index
              /\ UNCHANGED << pc, nodes, parsed >>
         [] it.kind = "err" ->
              /\ parsed' = ParseFailed(nodes, it.err)
              /\ pc' = "ParseReturned"
              /\ UNCHANGED << index, nodes >>
         [] it.kind = "panic" ->
              /\ pc' = "ParsePanicked"
              /\ UNCHANGED << index, nodes, parsed >>
         [] it.kind = "hang" ->
              /\ pc' = "Hung"
              /\ UNCHANGED << index, nodes, parsed >>
  /\ UNCHANGED << input, generator, run, first, lexVars, tokens, genVars, globalScope >>

ParseReturn ==
  /\ pc = "Parse"
  /\ index >= Len(tokens)
  /\ parsed' = ParseSucceeded(nodes)
  /\ pc' = "ParseReturned"
  /\ UNCHANGED << input, generator, run, first, lexVars, tokens, index, iterations, nodes,
                  genVars, globalScope >>

(***************************************************************************)
(* GenerateLLVMIR(nodes), called when Parse returned no error              *)
(***************************************************************************)
\* The entry of GenerateLLVMIR with the entries of globalScope written only
\* when they are absent.
GenerateEnterKeepingGlobals ==
  /\ pc = "ParseReturned"
  /\ parsed.err = NoError
  /\ mainFunctionScope' = newScope
  /\ funcs' = << Function(MainName, 0, FALSE, <<>>), Function(printfIndentifier, 1, TRUE, <<>>) >>
  /\ globalScope' =
       IF Has(globalScope.Callers, printfIndentifier) THEN globalScope
       ELSE [globalScope EXCEPT
               !.Callers = Put(@, printfIndentifier, [module |-> run, func |-> 2]),
               !.Globals = Put(@, "format_string", [module |-> run])]
  /\ gi' = 0
  /\ pc' = "GenerateLLVMIR"
  /\ UNCHANGED << input, generator, run, first, lexVars, tokens, parseVars, bi,
                  currentFunctionScope, result >>

\* The module before the loop: main and the declaration of printf.
InitialModule ==
  << Function(MainName, 0, FALSE, <<>>), Function(printfIndentifier, 1, TRUE, <<>>) >>

\* The function a builder appends to, with its body replaced.
WithBody(fs, f, body) == [fs EXCEPT ![f].Body = body]

\* A return of the module built so far together with the error.
FailedWithModule(err) == [ir |-> InitialModule, err |-> err]

\* return "", err
Failed(err) == [ir |-> EmptyIR, err |-> err]
\* return module.String(), nil
Succeeded(fs) == [ir |-> fs, err |-> NoGenError]

GenerateEnter ==
  /\ pc = "ParseReturned"
  /\ parsed.err = NoError
  /\ mainFunctionScope' = newScope
  /\ funcs' = InitialModule
  /\ globalScope' =
       [globalScope EXCEPT
          !.Callers = Put(@, printfIndentifier, [module |-> run, func |-> 2]),
          !.Globals = Put(@, "format_string", [module |-> run])]
  /\ gi' = 0
  /\ pc' = "GenerateLLVMIR"
  /\ UNCHANGED << input, generator, run, first, lexVars, tokens, parseVars, bi,
                  currentFunctionScope, result >>

\* The node of this pass of the loop over nodes.
AtNode(kind) ==
  /\ pc = "GenerateLLVMIR"
  /\ gi < Len(parsed.nodes)
  /\ parsed.nodes[gi + 1].node = kind

\* The end of a pass of the loop over nodes that called a generate function
\* on the main builder: its outcome r.
MainOutcome(r) ==
  /\ funcs' = WithBody(funcs, 1, r.body)
  /\ mainFunctionScope' = r.scope
  /\ CASE r.kind = "ok" -> gi' = gi + 1 /\ UNCHANGED << pc, result >>
       [] r.kind = "err" -> pc' = "Returned" /\ result' = Failed(r.err) /\ UNCHANGED gi
       [] r.kind = "panic" -> pc' = "GeneratePanicked" /\ UNCHANGED << gi, result >>
  /\ UNCHANGED << input, generator, run, first, lexVars, tokens, parseVars, bi,
                  currentFunctionScope, globalScope >>

GenAdd ==
  /\ AtNode("Add")
  /\ \E name \in GenerateRandomIdentifier(generator) :
       MainOutcome(generateAdd(mainFunctionScope, funcs[1].Body, parsed.nodes[gi + 1], name))

GenCaller ==
  /\ AtNode("Caller")
  /\ \E name \in GenerateRandomIdentifier(generator) :
       MainOutcome(generateCaller(mainFunctionScope, funcs[1].Body, parsed.nodes[gi + 1],
                                  name, globalScope))

GenLet ==
  /\ AtNode("Let")
  /\ MainOutcome(generateLet(mainFunctionScope, funcs[1].Body, parsed.nodes[gi + 1]))

\* A While node, and every node the type switch has no case for.
GenSkip ==
  /\ pc = "GenerateLLVMIR"
  /\ gi < Len(parsed.nodes)
  /\ parsed.nodes[gi + 1].node \notin {"Add", "Caller", "Let", "Function"}
  /\ gi' = gi + 1
  /\ UNCHANGED << input, generator, run, first, pc, lexVars, tokens, parseVars, bi, funcs,
                  mainFunctionScope, currentFunctionScope, globalScope, result >>

\* Arguments that all hold the one variable of the loop: every parameter name
\* is bound to the last incoming argument.
ArgumentsOfLast(parameters) ==
  [name \in { parameters[k].Identifier : k \in 1..Len(parameters) } |-> Len(parameters) - 1]

\* currentFunctionScope.Arguments after the loop over the parameters: a name
\* is bound to the last parameter that carries it.
ArgumentsOf(parameters) ==
  [name \in { parameters[k].Identifier : k \in 1..Len(parameters) } |->
     (CHOOSE k \in 1..Len(parameters) :
        /\ parameters[k].Identifier = name
        /\ \A j \in (k + 1)..Len(parameters) : parameters[j].Identifier # name) - 1]

\* The number of llvmParameters of a Function node.
ParameterTypes(parameters) ==
  Cardinality({ k \in 1..Len(parameters) : parameters[k].Type = Integer32Type })

\* A Function node, up to the loop over its body.
GenFunction ==
  /\ AtNode("Function")
  /\ LET n == parsed.nodes[gi + 1] IN
       /\ funcs' = Append(funcs, Function(n.Name, ParameterTypes(n.Parameters), FALSE, <<>>))
       /\ currentFunctionScope' = [newScope EXCEPT !.Arguments = ArgumentsOf(n.Parameters)]
  /\ bi' = 0
  /\ pc' = "FunctionBody"
  /\ UNCHANGED << input, generator, run, first, lexVars, tokens, parseVars, gi,
                  mainFunctionScope, globalScope, result >>

\* The node of this pass of the loop over the body of the Function node.
AtBodyNode(kind) ==
  /\ pc = "FunctionBody"
  /\ bi < Len(parsed.nodes[gi + 1].Body)
  /\ parsed.nodes[gi + 1].Body[bi + 1].node = kind

BodyOutcome(r) ==
  /\ funcs' = WithBody(funcs, Len(funcs), r.body)
  /\ currentFunctionScope' = r.scope
  /\ CASE r.kind = "ok" -> bi' = bi + 1 /\ UNCHANGED << pc, result >>
       [] r.kind = "err" -> pc' = "Returned" /\ result' = Failed(r.err) /\ UNCHANGED bi
       [] r.kind = "panic" -> pc' = "GeneratePanicked" /\ UNCHANGED << bi, result >>
  /\ UNCHANGED << input, generator, run, first, lexVars, tokens, parseVars, gi,
                  mainFunctionScope, globalScope >>

BodyLet ==
  /\ AtBodyNode("Let")
  /\ BodyOutcome(generateLet(currentFunctionScope, funcs[Len(funcs)].Body,
                             parsed.nodes[gi + 1].Body[bi + 1]))

BodyCaller ==
  /\ AtBodyNode("Caller")
  /\ \E name \in GenerateRandomIdentifier(generator) :
       BodyOutcome(generateCaller(currentFunctionScope, funcs[Len(funcs)].Body,
                                  parsed.nodes[gi + 1].Body[bi + 1], name, globalScope))

\* Every other node of a body: the inner type switch has no case for it.
BodySkip ==
  /\ pc = "FunctionBody"
  /\ bi < Len(parsed.nodes[gi + 1].Body)
  /\ parsed.nodes[gi + 1].Body[bi + 1].node \notin {"Let", "Caller"}
  /\ bi' = bi + 1
  /\ UNCHANGED << input, generator, run, first, pc, lexVars, tokens, parseVars, gi, funcs,
                  mainFunctionScope, currentFunctionScope, globalScope, result >>

\* After the body: the function becomes a caller of the main scope and its
\* block is closed by ret void.
FunctionEnd ==
  /\ pc = "FunctionBody"
  /\ bi = Len(parsed.nodes[gi + 1].Body)
  /\ mainFunctionScope' =
       [mainFunctionScope EXCEPT
          !.Callers = Put(@, parsed.nodes[gi + 1].Name,
                          [func |-> Len(funcs), params |-> funcs[Len(funcs)].Params])]
  /\ funcs' = WithBody(funcs, Len(funcs),
                       Append(funcs[Len(funcs)].Body, Instr("ret", <<>>, <<>>)))
  /\ gi' = gi + 1
  /\ pc' = "GenerateLLVMIR"
  /\ UNCHANGED << input, generator, run, first, lexVars, tokens, parseVars, bi,
                  currentFunctionScope, globalScope, result >>

\* After the loop: ret i32 0, VerifyModule, module.String().
VerifyError == [msg |-> "verify", name |-> <<>>]

GenerateReturn ==
  /\ pc = "GenerateLLVMIR"
  /\ gi = Len(parsed.nodes)
  /\ funcs' = WithBody(funcs, 1, Append(funcs[1].Body, Instr("ret", <<>>, <<Const(0)>>)))
  /\ result' = IF VerifyModule(funcs') THEN Succeeded(funcs') ELSE Failed(VerifyError)
  /\ pc' = "Returned"
  /\ UNCHANGED << input, generator, run, first, lexVars, tokens, parseVars, gi, bi,
                  mainFunctionScope, currentFunctionScope, globalScope >>

(***************************************************************************)
(* A second run of the pipeline on the same input in the same process:     *)
(* the package variables keep their values.                                *)
(***************************************************************************)
Returned ==
  \/ pc = "Returned"
  \/ pc = "ParseReturned" /\ parsed.err # NoError

Rerun ==
  /\ Returned
  /\ run = 1
  /\ run' = 2
  /\ first' = [parsed |-> parsed, result |-> result]
  /\ pc' = IF input.kind = "text" THEN "Tokenize" ELSE "Parse"
  /\ pos' = 1
  /\ sb' = <<>>
  /\ tokens' = IF input.kind = "text" THEN <<>> ELSE tokens
  /\ index' = 0
  /\ iterations' = 0
  /\ nodes' = <<>>
  /\ parsed' = NoParsed
  /\ gi' = 0
  /\ bi' = 0
  /\ funcs' = <<>>
  /\ mainFunctionScope' = newScope
  /\ currentFunctionScope' = newScope
  /\ result' = NoResult
  /\ UNCHANGED << input, generator, globalScope >>

(***************************************************************************)
(* A later compilation of another unit in the same process, as the tests   *)
(* of one test binary follow one another: run 3.                           *)
(***************************************************************************)
LaterPrograms == { LetOf("x", "1") \o PrintOf("x") \o CallOf("f", <<>>) }

CompileLater ==
  /\ Returned
  /\ run = 1
  /\ input.kind = "tokens"
  /\ run' = 3
  /\ first' = [parsed |-> parsed, result |-> result]
  /\ pc' = "Parse"
  /\ pos' = 1
  /\ sb' = <<>>
  /\ tokens' \in LaterPrograms
  /\ index' = 0
  /\ iterations' = 0
  /\ nodes' = <<>>
  /\ parsed' = NoParsed
  /\ gi' = 0
  /\ bi' = 0
  /\ funcs' = <<>>
  /\ mainFunctionScope' = newScope
  /\ currentFunctionScope' = newScope
  /\ result' = NoResult
  /\ UNCHANGED << input, generator, globalScope >>

Next ==
  \/ TokenizeStep
  \/ TokenizeReturn
  \/ ParseStep
  \/ ParseReturn
  \/ GenerateEnter
  \/ GenAdd
  \/ GenCaller
  \/ GenLet
  \/ GenSkip
  \/ GenFunction
  \/ BodyLet
  \/ BodyCaller
  \/ BodySkip
  \/ FunctionEnd
  \/ GenerateReturn
  \/ Rerun
  \/ CompileLater

Spec == Init /\ [][Next]_vars

(***************************************************************************)
(* Properties                                                              *)
(***************************************************************************)

\* C1: every pass of the parseNodes loop of Parse that does not crash either
\* returns or strictly advances the token index, so Parse ends by returning.
C1_ParseLoopAdvances ==
  [][(pc = "Parse" /\ pc' # "ParsePanicked")
       => (pc' = "ParseReturned" \/ (pc' = "Parse" /\ index' > index))]_vars

\* C2: for a program text built only from the productions of the grammar,
\* Parse(Tokenize(text)) returns, and returns no error.
GrammarTexts == { TextLet, TextAdd, TextFunction, TextFor, TextWhile, TextCall, TextNested }

C2_GrammarTextParses ==
  (input.kind = "text" /\ input.text \in GrammarTexts)
    => /\ pc \notin {"ParsePanicked", "Hung"}
       /\ (pc = "ParseReturned" => parsed.err = NoError)

C4_GenerateNeverCrashes == pc # "GeneratePanicked"

\* The Function node a call at statement k of ns resolves to: the last one
\* of that name before it.
CalleeOf(ns, k) ==
  CHOOSE j \in 1..(k - 1) :
    /\ ns[j].node = "Function"
    /\ ns[j].Name = ns[k].FunctionName
    /\ \A i \in (j + 1)..(k - 1) :
         ~(ns[i].node = "Function" /\ ns[i].Name = ns[k].FunctionName)

\* Statement k of ns calls a declared function with a number of arguments
\* that is not the number of its parameters.
WrongArity(ns, k) ==
  /\ ns[k].node = "Caller"
  /\ ns[k].FunctionName # printfIndentifier
  /\ \E j \in 1..(k - 1) : ns[j].node = "Function" /\ ns[j].Name = ns[k].FunctionName
  /\ Len(ns[k].Parameters) # ParameterTypes(ns[CalleeOf(ns, k)].Parameters)

\* The statement of the parseNodes loop at index fails with the error Parse
\* returned.
ParseErrorIsOfStatementAtIndex ==
  LET it == ParseIteration(tokens, index, NoTokenType) IN
    it.kind = "err" /\ it.err = parsed.err

\* C5 (as claimed): an error of Parse comes with a nil node list, an error of
\* GenerateLLVMIR with empty IR text, and no statement after a failing one
\* has been processed.
C5_NoStatementAfterFailingOne ==
  /\ (pc = "ParseReturned" /\ parsed.err # NoError)
       => parsed.nil /\ parsed.nodes = <<>> /\ ParseErrorIsOfStatementAtIndex
  /\ (pc = "Returned" /\ result.err # NoGenError)
       => /\ result.ir = EmptyIR
          /\ \A k \in 1..Len(parsed.nodes) : WrongArity(parsed.nodes, k) => gi <= k

\* C5 (amended): an error of Parse comes with a nil node list and is that of
\* the statement the loop stopped at; an error of GenerateLLVMIR comes with
\* empty IR text and is either that of the statement the loop stopped at,
\* or the error of the module verification after every statement was
\* processed.
C5_ErrorsWithoutPartialResults ==
  /\ (pc = "ParseReturned" /\ parsed.err # NoError)
       => parsed.nil /\ parsed.nodes = <<>> /\ ParseErrorIsOfStatementAtIndex
  /\ (pc = "Returned" /\ result.err # NoGenError)
       => /\ result.ir = EmptyIR
          /\ IF result.err = VerifyError
             THEN gi = Len(parsed.nodes)
             ELSE /\ gi < Len(parsed.nodes)
                  /\ parsed.nodes[gi + 1].node \in {"Caller", "Function"}

\* C5 witness: GenerateLLVMIR returned the error of a call of an undeclared
\* function while a later statement was left unprocessed.
C5_Witness ==
  /\ pc = "Returned"
  /\ result.err.msg = "caller not found in scope"
  /\ result.ir = EmptyIR
  /\ gi + 1 < Len(parsed.nodes)

\* C6: the token list `while ( c ) { let x = 1 }` makes Parse return no error
\* and one While node with condition c and the let of the body.
WhileTokens == WhileOf("c", LetOf("x", "1"))

C6_WhileAccepted ==
  tokens = WhileTokens
    => /\ pc \notin {"ParsePanicked", "Hung"}
       /\ pc = "ParseReturned"
            => parsed = ParseSucceeded(<< WhileNode(<<"c">>,
                                            << LetNode(<<"x">>, Int32Value(1)) >>) >>)

\* C7: for a node list of one For node, GenerateLLVMIR returns IR whose main
\* stores the initial value into the counter slot, compares against the
\* literal of the condition, branches, and ends by a return.
C7_ForLowered ==
  (pc = "Returned" /\ Len(parsed.nodes) = 1 /\ parsed.nodes[1].node = "For")
    => /\ result.err = NoGenError
       /\ LET body == result.ir[1].Body IN
            /\ \E k \in 1..Len(body) :
                 /\ body[k].op = "store"
                 /\ body[k].args[1] = Const(parsed.nodes[1].Init.Value.v)
            /\ \E k \in 1..Len(body) :
                 /\ body[k].op = "icmp"
                 /\ \E a \in 1..Len(body[k].args) :
                      body[k].args[a] = Const(parsed.nodes[1].Condition.RightValue.v)
            /\ \E k \in 1..Len(body) : body[k].op = "br"
            /\ body[Len(body)].op = "ret"

\* C8: inside a function body, a call of a function that an earlier Function
\* node declared does not fail with 'caller not found'.
C8_BodyCallResolves ==
  ~ /\ pc = "Returned"
    /\ result.err.msg = "caller not found in scope"
    /\ gi < Len(parsed.nodes)
    /\ parsed.nodes[gi + 1].node = "Function"
    /\ \E j \in 1..gi :
         /\ parsed.nodes[j].node = "Function"
         /\ parsed.nodes[j].Name = result.err.name

\* The token at index + k is there and of type t.
HasType(tks, i, t) == i < Len(tks) /\ tks[i + 1].Type = t
\* The token at index + k is there and an identifier whose text is an integer.
HasInteger(tks, i) == HasType(tks, i, TokenIdentifierType) /\ AtoiOk(tks[i + 1].Value)

\* C9: when the token after `let` is not an identifier, the next is not '=',
\* or the one after '=' is absent or not an integer, the statement makes Parse
\* return an error and no nodes; it does not crash.
C9_LetFailsWithError ==
  [][(/\ pc = "Parse"
      /\ HasType(tokens, index, TokenLetType)
      /\ \/ ~HasType(tokens, index + 1, TokenIdentifierType)
         \/ ~HasType(tokens, index + 2, TokenEqualsType)
         \/ index + 3 >= Len(tokens)
         \/ ~AtoiOk(tokens[index + 4].Value))
       => /\ pc' = "ParseReturned"
          /\ parsed'.err # NoError
          /\ parsed'.nil]_vars

\* The header of a for statement and its '{', token by token: offset k from
\* `for` is as the production expects.
ForExpected(tks, i, k) ==
  CASE k = 0 -> HasType(tks, i, TokenForType)
    [] k \in {1, 5, 9} -> HasType(tks, i + k, TokenIdentifierType)
    [] k = 2 -> HasType(tks, i + k, TokenShortVariableAssignmentType)
    [] k \in {3, 7} -> HasInteger(tks, i + k)
    [] k \in {4, 8} -> HasType(tks, i + k, TokenSemicolonType)
    [] k = 6 -> HasType(tks, i + k, TokenLessThanType)
    [] k \in {10, 11} -> HasType(tks, i + k, TokenAddType)
    [] k = 12 -> HasType(tks, i + k, TokenOpenCurlyBracketType)

ForMismatches(tks, i) == { k \in 0..12 : ~ForExpected(tks, i, k) }
FirstOf(S) == CHOOSE k \in S : \A j \in S : k <= j

\* C10: on the first token of the header (or '{') that is absent or not of the
\* expected kind, the for statement makes Parse return an error that carries
\* the position of that token; it does not crash.
C10_ForFailsAtFirstMismatch ==
  [][(/\ pc = "Parse"
      /\ HasType(tokens, index, TokenForType)
      /\ ForMismatches(tokens, index) # {})
       => /\ pc' = "ParseReturned"
          /\ parsed'.err # NoError
          /\ parsed'.err.pos = index + FirstOf(ForMismatches(tokens, index))]_vars

\* The call node n that the call starting at token i of tks gave, the loop
\* going on at j, is an addition-call.
IsAdditionCall(tks, i, n, j) ==
  /\ n.isParameterOperation
  /\ n.Parameters = <<>>
  /\ HasInteger(tks, i + 2) /\ HasInteger(tks, i + 4)
  /\ n.AddOperationNode =
       AddOperationNode(Int32Value(Int32OfAtoi(tks[i + 3].Value)),
                        Int32Value(Int32OfAtoi(tks[i + 5].Value)))
  /\ j = i + 6

\* The same, a plain call: one parameter for each token between '(' and ')'.
IsPlainCall(tks, i, n, j) ==
  /\ ~n.isParameterOperation
  /\ n.AddOperationNode = Nil
  /\ j = i + 3 + Len(n.Parameters)
  /\ HasType(tks, j - 1, TokenCloseParenthesisType)
  /\ \A k \in 1..Len(n.Parameters) :
       LET word == tks[i + 2 + k].Value IN
         /\ tks[i + 2 + k].Type = TokenIdentifierType
         /\ n.Parameters[k].Identifier = word
         /\ (n.Parameters[k].Value.t = "int32") <=> AtoiOk(word)
         /\ AtoiOk(word) => n.Parameters[k].Value = Int32Value(Int32OfAtoi(word))
         /\ ~AtoiOk(word) => n.Parameters[k].Value = StringValue(word)

\* C11: the call node a statement `name (` adds to the nodes is an
\* addition-call if the token after the first argument token is '+', and a
\* plain call if it is not; never both, never something else.
C11_CallShapes ==
  [][(/\ pc = "Parse"
      /\ HasType(tokens, index, TokenIdentifierType)
      /\ HasType(tokens, index + 1, TokenOpenParenthesisType)
      /\ Len(nodes') = Len(nodes) + 1)
       => LET n == nodes'[Len(nodes')] IN
            /\ n.node = "Caller"
            /\ n.FunctionName = tokens[index + 1].Value
            /\ IF HasType(tokens, index + 3, TokenAddType)
               THEN IsAdditionCall(tokens, index, n, index')
               ELSE IsPlainCall(tokens, index, n, index')]_vars

\* C11 witness: the loop has added a plain call with an integer argument.
C11_Witness ==
  /\ pc = "Parse"
  /\ Len(nodes) > 0
  /\ nodes[Len(nodes)].node = "Caller"
  /\ ~nodes[Len(nodes)].isParameterOperation
  /\ Len(nodes[Len(nodes)].Parameters) > 0
  /\ nodes[Len(nodes)].Parameters[1].Value = Int32Value(1)

\* Tokenize is about to read the rune r of the input.
Reads(r) == pc = "Tokenize" /\ pos <= Len(input.text) /\ input.text[pos] = r

\* The token of a word by the one rule: a keyword when the word is one, an
\* identifier when it is not.
ClassifiedWord(word) ==
  CASE word = <<"w", "h", "i", "l", "e">> -> Token(TokenWhileType)
    [] word = <<"l", "e", "t">> -> Token(TokenLetType)
    [] word = <<"f", "u", "n", "c", "t", "i", "o", "n">> -> Token(TokenFunctionType)
    [] word = <<"i", "3", "2">> -> Token(TokenInteger32Type)
    [] OTHER -> IdentifierToken(word)

\* C12: at a '=' that follows a word directly, Tokenize emits the token of
\* the word, then the equals token, and the word buffer is empty afterwards.
C12_EqualsFlushesWord ==
  [][(Reads("=") /\ sb # <<>>)
       => /\ sb' = <<>>
          /\ tokens' = tokens \o << ClassifiedWord(sb), Token(TokenEqualsType) >>]_vars

\* The runes and the end of input that end a word, '=' left aside.
EndsWord ==
  /\ pc = "Tokenize"
  /\ \/ pos > Len(input.text)
     \/ pos <= Len(input.text)
          /\ \/ IsSpace(input.text[pos])
             \/ input.text[pos] \in {"(", ")", "{", "}", ","}

\* C13: whatever ends a pending word (white space, a parenthesis, a brace, a
\* comma, the end of the input), the token emitted for the word is the one
\* of the single classification rule.
C13_OneClassificationRule ==
  [][(EndsWord /\ sb # <<>>)
       => /\ Len(tokens') > Len(tokens)
          /\ tokens'[Len(tokens) + 1] = ClassifiedWord(sb)]_vars

WhiteSpaceOnly(text) == \A k \in 1..Len(text) : text[k] \in {" ", "\t", "\n", "\r"}

\* C15: every step of Tokenize reads one rune and moves to the next, or,
\* past the last rune, returns the tokens; a text of white space only gives
\* the empty token list.
C15_TokenizeTotal ==
  [][pc = "Tokenize"
       => \/ /\ pos <= Len(input.text)
             /\ pos' = pos + 1
             /\ pc' = "Tokenize"
          \/ /\ pos = Len(input.text) + 1
             /\ pc' = "Parse"
             /\ WhiteSpaceOnly(input.text) => tokens' = <<>>]_vars

\* C15 witness: Tokenize has returned the empty token list for the text of a
\* blank, a tab and a line feed.
C15_Witness ==
  /\ input.kind = "text"
  /\ input.text = TextBlank
  /\ pc = "Parse"
  /\ tokens = <<>>

\* A Function node among the first k nodes of the unit declares name.
DeclaredBefore(name, k) ==
  \E j \in 1..k : parsed.nodes[j].node = "Function" /\ parsed.nodes[j].Name = name

\* The node GenerateLLVMIR is about to generate: a statement of the unit or
\* of the body of a Function node of the unit.
NodeAtHand ==
  IF pc = "GenerateLLVMIR" /\ gi < Len(parsed.nodes)
  THEN parsed.nodes[gi + 1]
  ELSE IF pc = "FunctionBody" /\ bi < Len(parsed.nodes[gi + 1].Body)
  THEN parsed.nodes[gi + 1].Body[bi + 1]
  ELSE Nil

\* C16: when GenerateLLVMIR comes to a call node whose name is not printf
\* and that no earlier Function node declared, it returns the error
\* 'caller not found' for that name and empty IR text.
C16_UndeclaredCallFails ==
  [][(/\ NodeAtHand # Nil
      /\ NodeAtHand.node = "Caller"
      /\ NodeAtHand.FunctionName # <<"p", "r", "i", "n", "t", "f">>
      /\ ~DeclaredBefore(NodeAtHand.FunctionName, gi))
       => /\ pc' = "Returned"
          /\ result'.err = [msg |-> "caller not found in scope", name |-> NodeAtHand.FunctionName]
          /\ result'.ir = <<>>]_vars

\* C16 witness: GenerateLLVMIR returned 'caller not found' for a call that
\* precedes the definition of its function.
C16_Witness ==
  /\ pc = "Returned"
  /\ result.err.msg = "caller not found in scope"
  /\ result.ir = <<>>
  /\ gi < Len(parsed.nodes)
  /\ parsed.nodes[gi + 1].node = "Caller"
  /\ \E j \in (gi + 2)..Len(parsed.nodes) :
       /\ parsed.nodes[j].node = "Function"
       /\ parsed.nodes[j].Name = parsed.nodes[gi + 1].FunctionName

\* In the function body being generated, name is a local variable and also
\* a callable: printf, or a function an earlier Function node declared.
LocalAndCallable(name) ==
  /\ pc = "FunctionBody"
  /\ Has(currentFunctionScope.Variables, name)
  /\ name = <<"p", "r", "i", "n", "t", "f">> \/ DeclaredBefore(name, gi)

\* The function of the module that name calls: printf, or the function of
\* the last Function node before the one being generated that declares it.
CallableOf(name) ==
  IF name = <<"p", "r", "i", "n", "t", "f">> THEN 2
  ELSE LET j == CHOOSE j \in 1..gi :
                  /\ parsed.nodes[j].node = "Function" /\ parsed.nodes[j].Name = name
                  /\ \A i \in (j + 1)..gi :
                       ~(parsed.nodes[i].node = "Function" /\ parsed.nodes[i].Name = name)
       IN 2 + Cardinality({ i \in 1..j : parsed.nodes[i].node = "Function" })

\* C17: in a function body, a name that is a local variable and a callable
\* is the local variable as the argument of a print (the print loads the
\* local's slot) and the callable in call position (a call of it is emitted).
C17_LocalValueGlobalCall ==
  [][(/\ pc = "FunctionBody"
      /\ NodeAtHand # Nil
      /\ NodeAtHand.node = "Caller"
      /\ ~NodeAtHand.isParameterOperation)
       => LET n == NodeAtHand
              body == funcs'[Len(funcs')].Body
          IN /\ (/\ n.FunctionName = <<"p", "r", "i", "n", "t", "f">>
                 /\ Len(n.Parameters) = 1
                 /\ LocalAndCallable(n.Parameters[1].Identifier))
                  => /\ pc' = "FunctionBody"
                     /\ Len(body) = Len(funcs[Len(funcs)].Body) + 3
                     /\ body[Len(body) - 1].op = "load"
                     /\ body[Len(body) - 1].args
                          = << Inst(currentFunctionScope.Variables[n.Parameters[1].Identifier]) >>
                     /\ body[Len(body)].op = "call"
                     /\ body[Len(body)].args[3] = Inst(Len(body) - 1)
             /\ (/\ LocalAndCallable(n.FunctionName)
                 /\ n.FunctionName = <<"p", "r", "i", "n", "t", "f">> => Len(n.Parameters) = 1)
                  => /\ pc' = "FunctionBody"
                     /\ Len(body) > Len(funcs[Len(funcs)].Body)
                     /\ IF n.FunctionName = <<"p", "r", "i", "n", "t", "f">>
                        THEN body[Len(funcs[Len(funcs)].Body) + 1].op = "gep"
                        ELSE /\ body[Len(body)].op = "call"
                             /\ body[Len(body)].args[1] = Func(CallableOf(n.FunctionName))]_vars

\* A plain print of the one name id.
IsPrintOf(n, id) ==
  /\ n.node = "Caller"
  /\ n.FunctionName = <<"p", "r", "i", "n", "t", "f">>
  /\ ~n.isParameterOperation
  /\ Len(n.Parameters) = 1
  /\ n.Parameters[1].Identifier = id

\* The place of the parameter named id among the parameters ps.
PlaceOf(ps, id) == CHOOSE k \in 1..Len(ps) : ps[k].Identifier = id

\* Scenario C: a Function node whose body is a let, a print of the let's
\* name and a print of a parameter, then a call of it with one integer
\* literal for each parameter.
ScenarioC(ns) ==
  /\ Len(ns) = 2
  /\ ns[1].node = "Function"
  /\ ns[1].Name # <<"p", "r", "i", "n", "t", "f">>
  /\ Len(ns[1].Parameters) > 0
  /\ \A j, k \in 1..Len(ns[1].Parameters) :
       ns[1].Parameters[j].Identifier = ns[1].Parameters[k].Identifier => j = k
  /\ Len(ns[1].Body) = 3
  /\ ns[1].Body[1].node = "Let"
  /\ IsPrintOf(ns[1].Body[2], ns[1].Body[1].Identifier)
  /\ \E k \in 1..Len(ns[1].Parameters) :
       /\ IsPrintOf(ns[1].Body[3], ns[1].Parameters[k].Identifier)
       /\ ns[1].Parameters[k].Identifier # ns[1].Body[1].Identifier
  /\ ns[2].node = "Caller"
  /\ ns[2].FunctionName = ns[1].Name
  /\ ~ns[2].isParameterOperation
  /\ Len(ns[2].Parameters) = Len(ns[1].Parameters)
  /\ \A k \in 1..Len(ns[2].Parameters) : ns[2].Parameters[k].Value.t = "int32"

\* C18: Scenario C gives a routine with one i32 parameter for each parameter
\* of the node, whose body allocates and stores the local, prints the load
\* of the local's slot, prints the incoming argument of the parameter and
\* returns void; main calls the routine with the literals in order.
C18_ScenarioC ==
  (pc = "Returned" /\ ScenarioC(parsed.nodes))
    => LET f == parsed.nodes[1]
           call == parsed.nodes[2]
           printf == [k |-> "func", v |-> 2]
       IN /\ result.err = NoGenError
          /\ Len(result.ir) = 3
          /\ result.ir[3].Name = f.Name
          /\ result.ir[3].Params = Len(f.Parameters)
          /\ ~result.ir[3].VarArg
          /\ result.ir[3].Body =
               << [op |-> "alloca", name |-> f.Body[1].Identifier, args |-> <<>>, align |-> 4],
                  [op |-> "store", name |-> <<>>,
                   args |-> << [k |-> "const", v |-> f.Body[1].Value.v], [k |-> "inst", v |-> 1] >>],
                  [op |-> "gep", name |-> <<"f", "o", "r", "m", "a", "t">>,
                   args |-> << [k |-> "global", v |-> 0] >>],
                  [op |-> "load", name |-> f.Body[1].Identifier \o <<"V", "a", "l", "u", "e">>,
                   args |-> << [k |-> "inst", v |-> 1] >>],
                  [op |-> "call", name |-> <<>>,
                   args |-> << printf, [k |-> "inst", v |-> 3], [k |-> "inst", v |-> 4] >>],
                  [op |-> "gep", name |-> <<"f", "o", "r", "m", "a", "t">>,
                   args |-> << [k |-> "global", v |-> 0] >>],
                  [op |-> "call", name |-> <<>>,
                   args |-> << printf, [k |-> "inst", v |-> 6],
                               [k |-> "arg",
                                v |-> PlaceOf(f.Parameters,
                                              f.Body[3].Parameters[1].Identifier) - 1] >>],
                  [op |-> "ret", name |-> <<>>, args |-> <<>>] >>
          /\ result.ir[1].Body =
               << [op |-> "call", name |-> <<>>,
                   args |-> << [k |-> "func", v |-> 3] >>
                              \o [k \in 1..Len(call.Parameters) |->
                                    [k |-> "const", v |-> call.Parameters[k].Value.v]]],
                  [op |-> "ret", name |-> <<>>, args |-> << [k |-> "const", v |-> 0] >>] >>

\* C18 witness: GenerateLLVMIR has returned the module of the text
\* `function add(a i32, b i32) { let donut = 43 printf(donut) printf(a) } add(1,2)`.
C18_Witness ==
  /\ pc = "Returned"
  /\ input.kind = "text"
  /\ input.text = TextFunction
  /\ ScenarioC(parsed.nodes)
  /\ result.err = NoGenError
  /\ Len(parsed.nodes[1].Parameters) = 2

\* The body of the routine GenerateLLVMIR is appending to, in the module fs.
BodyAtHand(fs) == IF pc = "GenerateLLVMIR" THEN fs[1].Body ELSE fs[Len(fs)].Body

\* C19: a print of the addition of two integer literals appends to the
\* routine, in this order, the add of the two constants, a new 4-byte-aligned
\* slot, the store of the sum into it, the pointer to the format string, the
\* load of the slot and one call of printf with that pointer and the load.
C19_ScenarioB ==
  [][(/\ NodeAtHand # Nil
      /\ NodeAtHand.node = "Caller"
      /\ NodeAtHand.FunctionName = <<"p", "r", "i", "n", "t", "f">>
      /\ NodeAtHand.isParameterOperation)
       => LET n == Len(BodyAtHand(funcs))
              sum == NodeAtHand.AddOperationNode
          IN \E name \in GenerateRandomIdentifier(generator) :
               BodyAtHand(funcs') = BodyAtHand(funcs) \o
                 << [op |-> "add", name |-> <<>>,
                     args |-> << [k |-> "const", v |-> sum.LeftValue.v],
                                 [k |-> "const", v |-> sum.RightValue.v] >>],
                    [op |-> "alloca", name |-> name, args |-> <<>>, align |-> 4],
                    [op |-> "store", name |-> <<>>,
                     args |-> << [k |-> "inst", v |-> n + 1], [k |-> "inst", v |-> n + 2] >>],
                    [op |-> "gep", name |-> <<"f", "o", "r", "m", "a", "t">>,
                     args |-> << [k |-> "global", v |-> 0] >>],
                    [op |-> "load", name |-> <<>>, args |-> << [k |-> "inst", v |-> n + 2] >>],
                    [op |-> "call", name |-> <<>>,
                     args |-> << [k |-> "func", v |-> 2], [k |-> "inst", v |-> n + 4],
                                 [k |-> "inst", v |-> n + 5] >>] >>]_vars

\* C19 witness: GenerateLLVMIR has returned the module of the one node of
\* `printf ( 1 + 2 )`, main holding the six instructions and the return.
C19_Witness ==
  /\ pc = "Returned"
  /\ Len(parsed.nodes) = 1
  /\ parsed.nodes[1].node = "Caller"
  /\ parsed.nodes[1].isParameterOperation
  /\ result.err = NoGenError
  /\ Len(result.ir[1].Body) = 7
  /\ result.ir[1].Body[1].args = << [k |-> "const", v |-> 1], [k |-> "const", v |-> 2] >>

\* A unit of one let, or of one let and a print of its name.
ScenarioA(ns) ==
  /\ Len(ns) \in {1, 2}
  /\ ns[1].node = "Let"
  /\ Len(ns) = 2 => IsPrintOf(ns[2], ns[1].Identifier)

\* C20: for a let of x and v, main allocates one 4-byte-aligned slot named x,
\* stores the constant v into it and returns; x is in the scope of main, and
\* a print of x that follows loads that slot.
C20_ScenarioA ==
  (pc = "Returned" /\ ScenarioA(parsed.nodes))
    => LET let == parsed.nodes[1] IN
         /\ result.err = NoGenError
         /\ Has(mainFunctionScope.Variables, let.Identifier)
         /\ mainFunctionScope.Variables[let.Identifier] = 1
         /\ result.ir[1].Body =
              << [op |-> "alloca", name |-> let.Identifier, args |-> <<>>, align |-> 4],
                 [op |-> "store", name |-> <<>>,
                  args |-> << [k |-> "const", v |-> let.Value.v], [k |-> "inst", v |-> 1] >>] >>
              \o (IF Len(parsed.nodes) = 1 THEN <<>>
                  ELSE << [op |-> "gep", name |-> <<"f", "o", "r", "m", "a", "t">>,
                           args |-> << [k |-> "global", v |-> 0] >>],
                          [op |-> "load",
                           name |-> let.Identifier \o <<"V", "a", "l", "u", "e">>,
                           args |-> << [k |-> "inst", v |-> 1] >>],
                          [op |-> "call", name |-> <<>>,
                           args |-> << [k |-> "func", v |-> 2], [k |-> "inst", v |-> 3],
                                       [k |-> "inst", v |-> 4] >>] >>)
              \o << [op |-> "ret", name |-> <<>>, args |-> << [k |-> "const", v |-> 0] >>] >>

\* C20 witness: GenerateLLVMIR has returned the module of `let donutloop = 42`.
C20_Witness ==
  /\ pc = "Returned"
  /\ input.kind = "text"
  /\ input.text = TextLet
  /\ result.err = NoGenError
  /\ Len(result.ir[1].Body) = 3
  /\ result.ir[1].Body[2].args[1] = [k |-> "const", v |-> 42]


(***************************************************************************)
(* C21: the empty source string                                            *)
(***************************************************************************)
EmptySource == input.kind = "text" /\ input.text = <<>>

\* The module of a program without statements: main holding only ret i32 0,
\* and the declaration of printf.
ModuleOfNothing ==
  << Function(MainName, 0, FALSE, << Instr("ret", <<>>, <<Const(0)>>) >>),
     Function(printfIndentifier, 1, TRUE, <<>>) >>

\* C21: the empty source string yields no token, no node and no error at any
\* stage (no panic, no hang either), and the module GenerateLLVMIR returns
\* holds the declaration of printf, the format_string global and a main whose
\* only instruction is its return.
C21_EmptySource ==
  EmptySource =>
    /\ tokens = <<>>
    /\ nodes = <<>>
    /\ parsed.nodes = <<>> /\ parsed.err = NoError
    /\ pc \notin {"ParsePanicked", "Hung", "GeneratePanicked"}
    /\ pc = "ParseReturned" => ~parsed.nil
    /\ pc = "Returned" =>
         /\ result = Succeeded(ModuleOfNothing)
         /\ Has(globalScope.Globals, "format_string")
         /\ globalScope.Globals["format_string"].module = run
         /\ globalScope.Callers[printfIndentifier] = [module |-> run, func |-> 2]

C21_Witness ==
  EmptySource /\ pc = "Returned" /\ result.ir = ModuleOfNothing


(***************************************************************************)
(* C22: the position of a parse error                                      *)
(***************************************************************************)
\* The kind of token an error message says was expected ("int" for an
\* identifier whose text is an integer).
ExpectedBy(msg) ==
  CASE msg \in { "expected identifier after 'let' at position",
                 "expected 'identifier' at start",
                 "expected 'identifier' after 'add sign' at position",
                 "expected identifier after 'function' at position",
                 "expected identifier after 'for' at position",
                 "expected identifier after ':=' at position",
                 "expected identifier after ';' at position" } -> TokenIdentifierType
    [] msg \in { "expected 'int' after equal condition at position",
                 "expected 'int' as value at position" } -> "int"
    [] msg = "expected '=' after let at position" -> TokenEqualsType
    [] msg \in { "expected 'add sign' after 'identifier' at position",
                 "expected 'add sign' after 'add sign' at position" } -> TokenAddType
    [] msg \in { "expected ')' after parameters at position",
                 "expected ')' after function parameters at position",
                 "expected ')' after while condition at position" } -> TokenCloseParenthesisType
    [] msg \in { "expected '(' after caller at position",
                 "expected '(' after function name at position",
                 "expected '(' after 'while' at position" } -> TokenOpenParenthesisType
    [] msg = "expected 'i32' after function parameter at position" -> TokenInteger32Type
    [] msg \in { "expected '{' after function parameters at position",
                 "expected '{' after while condition at position" } -> TokenOpenCurlyBracketType
    [] msg \in { "expected '}' after function body at position",
                 "expected '}' after while body at position" } -> TokenCloseCurlyBracketType
    [] msg = "expected 'for' at start" -> TokenForType
    [] msg = "expected := after 'identifier' at position" -> TokenShortVariableAssignmentType
    [] msg = "expected ; after 'value' at position" -> TokenSemicolonType
    [] msg = "expected < after 'idenfifier' at position" -> TokenLessThanType

\* The token of tks at the position of the error is the offending one: it
\* belongs to the statement that failed (the one at index from) and it is
\* absent or not of the kind the message expected.
Offending(tks, from, err) ==
  /\ err.pos >= from
  /\ IF ExpectedBy(err.msg) = "int"
     THEN ~HasInteger(tks, err.pos)
     ELSE ~HasType(tks, err.pos, ExpectedBy(err.msg))

\* C22: every position reported in a parse error is the index, in the token
\* sequence passed to Parse, of the offending token, also when the error
\* arises inside the body of a function or of a for loop.
C22_ErrorPositionIsAbsolute ==
  (pc = "ParseReturned" /\ parsed.err # NoError) => Offending(tokens, index, parsed.err)


(***************************************************************************)
(* C23: the end of the tokens inside a list                                *)
(***************************************************************************)
\* The statement at index i is a call whose argument list is still open when
\* the tokens end: after '(' come identifiers only.
CallEndsOpen(tks, i) ==
  /\ HasType(tks, i, TokenIdentifierType)
  /\ HasType(tks, i + 1, TokenOpenParenthesisType)
  /\ \A k \in (i + 2)..(Len(tks) - 1) : HasType(tks, k, TokenIdentifierType)

\* The statement at index i is a function whose parameter list is still open
\* when the tokens end: after '(' come pairs of identifier and i32 only.
FunctionEndsOpen(tks, i) ==
  /\ HasType(tks, i, TokenFunctionType)
  /\ HasType(tks, i + 1, TokenIdentifierType)
  /\ HasType(tks, i + 2, TokenOpenParenthesisType)
  /\ (Len(tks) - (i + 3)) % 2 = 0
  /\ \A k \in (i + 3)..(Len(tks) - 1) :
       HasType(tks, k, IF (k - (i + 3)) % 2 = 0 THEN TokenIdentifierType
                       ELSE TokenInteger32Type)

\* C23: when the tokens end inside a call argument list or a function
\* parameter list, Parse returns the "expected ')'" error at the end of the
\* tokens; it does not read past the end (no index-out-of-range panic).
C23_OpenListFailsWithError ==
  [][(/\ pc = "Parse"
      /\ index < Len(tokens)
      /\ iterations < MaxIterations
      /\ CallEndsOpen(tokens, index) \/ FunctionEndsOpen(tokens, index))
       => /\ pc' = "ParseReturned"
          /\ parsed'.err.msg \in { "expected ')' after parameters at position",
                                   "expected ')' after function parameters at position" }
          /\ parsed'.err.pos = Len(tokens)]_vars


(***************************************************************************)
(* C24: an addition statement in a function body                           *)
(***************************************************************************)
\* The three instructions generateAdd appends to body for the addition n, the
\* slot under some generated name.
AdditionLowered(body, n, after) ==
  /\ Len(after) = Len(body) + 3
  /\ SubSeq(after, 1, Len(body)) = body
  /\ after[Len(body) + 1] = Instr("add", <<>>, <<Const(n.LeftValue.v), Const(n.RightValue.v)>>)
  /\ after[Len(body) + 2].op = "alloca"
  /\ after[Len(body) + 2].name \in GenerateRandomIdentifier(generator)
  /\ after[Len(body) + 3] = Instr("store", <<>>, <<Inst(Len(body) + 1), Inst(Len(body) + 2)>>)

\* C24: an addition statement that stands directly in a function body is
\* lowered as at top level: an add instruction, its result stored in a fresh
\* stack slot, which becomes the PreviousVariable of the function's scope.
C24_BodyAdditionLowered ==
  [][(/\ pc = "FunctionBody"
      /\ bi < Len(parsed.nodes[gi + 1].Body)
      /\ parsed.nodes[gi + 1].Body[bi + 1].node = "Add")
       => /\ AdditionLowered(funcs[Len(funcs)].Body, parsed.nodes[gi + 1].Body[bi + 1],
                             funcs'[Len(funcs)].Body)
          /\ currentFunctionScope'.PreviousVariable = Len(funcs[Len(funcs)].Body) + 2]_vars


(***************************************************************************)
(* C25: a print is lowered or reported                                     *)
(***************************************************************************)
\* The function of the module the node at hand is generated into.
FunctionAtHand == IF pc = "FunctionBody" THEN Len(funcs) ELSE 1

\* The calls of printf among the instructions of body.
PrintCalls(body) ==
  { k \in 1..Len(body) : body[k].op = "call" /\ body[k].args[1] = [k |-> "func", v |-> 2] }

\* C25: every print call node that GenerateLLVMIR processes without
\* returning an error (and goes on to the next node) has emitted exactly one
\* call of printf; a print of an integer literal or of a name that is neither
\* a local variable nor an incoming argument is not dropped silently.
C25_PrintLoweredOrReported ==
  [][(/\ NodeAtHand # Nil
      /\ NodeAtHand.node = "Caller"
      /\ NodeAtHand.FunctionName = <<"p", "r", "i", "n", "t", "f">>
      /\ pc' \notin {"Returned", "GeneratePanicked"})
       => Cardinality(PrintCalls(funcs'[FunctionAtHand].Body))
            = Cardinality(PrintCalls(funcs[FunctionAtHand].Body)) + 1]_vars


(***************************************************************************)
(* C26: a local variable that carries the name of a parameter              *)
(***************************************************************************)
\* In the body being generated the node at hand is a print of a name that
\* an earlier let of the body bound and that is also a parameter.
PrintOfShadowedParameter ==
  /\ pc = "FunctionBody"
  /\ bi < Len(parsed.nodes[gi + 1].Body)
  /\ LET f == parsed.nodes[gi + 1]
         n == f.Body[bi + 1]
     IN /\ n.node = "Caller"
        /\ n.FunctionName = <<"p", "r", "i", "n", "t", "f">>
        /\ ~n.isParameterOperation
        /\ Len(n.Parameters) > 0
        /\ \E j \in 1..bi : f.Body[j].node = "Let"
                            /\ f.Body[j].Identifier = n.Parameters[1].Identifier
        /\ \E k \in 1..Len(f.Parameters) :
              f.Parameters[k].Identifier = n.Parameters[1].Identifier

\* The slot of the last let of the name id among the instructions of body.
SlotOf(body, id) ==
  CHOOSE k \in 1..Len(body) :
    /\ body[k].op = "alloca" /\ body[k].name = id
    /\ \A j \in (k + 1)..Len(body) : ~(body[j].op = "alloca" /\ body[j].name = id)

\* C26: in a function body where a let binds the name of a parameter, a
\* later print of that name loads the slot of the local variable and passes
\* the loaded value to printf, not the incoming argument.
C26_LocalBeforeArgument ==
  [][PrintOfShadowedParameter
       => LET body == funcs[Len(funcs)].Body
              after == funcs'[Len(funcs)].Body
              id == parsed.nodes[gi + 1].Body[bi + 1].Parameters[1].Identifier
          IN /\ pc' = "FunctionBody"
             /\ Len(after) = Len(body) + 3
             /\ after[Len(body) + 2].op = "load"
             /\ after[Len(body) + 2].args = << [k |-> "inst", v |-> SlotOf(body, id)] >>
             /\ after[Len(body) + 3].op = "call"
             /\ after[Len(body) + 3].args =
                  << [k |-> "func", v |-> 2], [k |-> "inst", v |-> Len(body) + 1],
                     [k |-> "inst", v |-> Len(body) + 2] >>]_vars

\* C26 witness: GenerateLLVMIR has returned the module of
\* `function f(a i32) { let a = 1 printf(a) }`, the print loading the slot of
\* the let.
C26_Witness ==
  /\ pc = "Returned"
  /\ result.err = NoGenError
  /\ Len(parsed.nodes) = 1
  /\ parsed.nodes[1].node = "Function"
  /\ Len(parsed.nodes[1].Parameters) = 1
  /\ parsed.nodes[1].Parameters[1].Identifier = <<"a">>
  /\ Len(parsed.nodes[1].Body) = 2
  /\ parsed.nodes[1].Body[1].node = "Let"
  /\ parsed.nodes[1].Body[1].Identifier = <<"a">>
  /\ IsPrintOf(parsed.nodes[1].Body[2], <<"a">>)
  /\ Len(result.ir[3].Body) = 6
  /\ result.ir[3].Body[4].op = "load"
  /\ result.ir[3].Body[4].args = << [k |-> "inst", v |-> 1] >>


(***************************************************************************)
(* C27: nested function and for bodies                                     *)
(***************************************************************************)
\* The decimal digits of a natural number.
RECURSIVE Digits(_)
Digits(n) ==
  IF n < 10 THEN << DigitChars[n + 1] >>
  ELSE Append(Digits(n \div 10), DigitChars[(n % 10) + 1])

\* The tokens a list of statements is written with, in order; a body is
\* written between the braces of its own statement.
RECURSIVE Unparse(_)
UnparseNode(n) ==
  CASE n.node = "Let" ->
         << Token(TokenLetType), IdentifierToken(n.Identifier), Token(TokenEqualsType),
            IdentifierToken(Digits(n.Value.v)) >>
    [] n.node = "Add" ->
         << IdentifierToken(Digits(n.LeftValue.v)), Token(TokenAddType),
            IdentifierToken(Digits(n.RightValue.v)) >>
    [] n.node = "Caller" ->
         << IdentifierToken(n.FunctionName), Token(TokenOpenParenthesisType) >>
           \o (IF n.isParameterOperation
               THEN << IdentifierToken(Digits(n.AddOperationNode.LeftValue.v)),
                       Token(TokenAddType),
                       IdentifierToken(Digits(n.AddOperationNode.RightValue.v)) >>
               ELSE [k \in 1..Len(n.Parameters) |-> IdentifierToken(n.Parameters[k].Identifier)])
           \o << Token(TokenCloseParenthesisType) >>
    [] n.node = "Function" ->
         << Token(TokenFunctionType), IdentifierToken(n.Name), Token(TokenOpenParenthesisType) >>
           \o [k \in 1..(2 * Len(n.Parameters)) |->
                 IF k % 2 = 1 THEN IdentifierToken(n.Parameters[(k + 1) \div 2].Identifier)
                 ELSE Token(TokenInteger32Type)]
           \o << Token(TokenCloseParenthesisType), Token(TokenOpenCurlyBracketType) >>
           \o Unparse(n.Body)
           \o << Token(TokenCloseCurlyBracketType) >>
    [] n.node = "For" ->
         << Token(TokenForType), IdentifierToken(n.Init.Identifier),
            Token(TokenShortVariableAssignmentType), IdentifierToken(Digits(n.Init.Value.v)),
            Token(TokenSemicolonType), IdentifierToken(n.Condition.LeftValue),
            Token(TokenLessThanType), IdentifierToken(Digits(n.Condition.RightValue.v)),
            Token(TokenSemicolonType), IdentifierToken(n.Post.Identifier),
            Token(TokenAddType), Token(TokenAddType), Token(TokenOpenCurlyBracketType) >>
           \o Unparse(n.Body)
           \o << Token(TokenCloseCurlyBracketType) >>

Unparse(ns) == IF ns = <<>> THEN <<>> ELSE UnparseNode(Head(ns)) \o Unparse(Tail(ns))

\* Token sequences in which function bodies and for bodies nest.
NestedPrograms ==
  { FunctionOf("f", <<>>, ForOf(<<>>) \o PrintOf("1")) \o CallOf("f", <<>>),
    ForOf(FunctionOf("f", ParamOf("a"), LetOf("x", "1")) \o PrintOf("i")) \o LetOf("x", "1"),
    FunctionOf("f", <<>>, ForOf(ForOf(PrintOf("i")) \o LetOf("x", "1")) \o PrintAdd)
      \o ForOf(<<>>) \o CallOf("f", <<>>) }

\* The tokens at hand are those of a nested program, or of the text of
\* TestFunctionWithLetAndCaller.
NestedAtHand ==
  \/ input.kind = "tokens" /\ tokens \in NestedPrograms
  \/ input.kind = "text" /\ input.text = TextFunction /\ pc # "Tokenize"

\* C27: where function bodies and for bodies nest, each '}' closes the
\* innermost open body, the statements after it go to the enclosing list and
\* every list holds its nodes in source order: Parse returns no error, and
\* writing the nodes out, each body between the braces of its statement,
\* gives back the tokens.
C27_BracesCloseInnermost ==
  NestedAtHand =>
    /\ pc \notin {"ParsePanicked", "Hung"}
    /\ pc \notin {"Parse", "Tokenize"} =>
         /\ parsed.err = NoError
         /\ Unparse(parsed.nodes) = tokens

\* C27 witness: Parse has returned for the function whose body holds a for
\* whose body holds a for, followed by a for and a call.
C27_Witness ==
  /\ pc = "ParseReturned"
  /\ Len(parsed.nodes) = 3
  /\ parsed.nodes[1].node = "Function"
  /\ Len(parsed.nodes[1].Body) = 2
  /\ parsed.nodes[1].Body[1].node = "For"
  /\ Len(parsed.nodes[1].Body[1].Body) = 2
  /\ parsed.nodes[1].Body[1].Body[1].node = "For"
  /\ Len(parsed.nodes[1].Body[1].Body[1].Body) = 1
  /\ parsed.nodes[1].Body[1].Body[2].node = "Let"
  /\ parsed.nodes[1].Body[2].node = "Caller"
  /\ parsed.nodes[2].node = "For"
  /\ parsed.nodes[3].node = "Caller"


(***************************************************************************)
(* C28: the last computed temporary                                        *)
(***************************************************************************)
\* The node at hand makes generateCaller or GenerateLLVMIR call generateAdd.
AddsAtHand ==
  /\ NodeAtHand # Nil
  /\ \/ NodeAtHand.node = "Add" /\ pc = "GenerateLLVMIR"
     \/ NodeAtHand.node = "Caller" /\ NodeAtHand.isParameterOperation

\* C28: every generateAdd sets the PreviousVariable of its scope to the slot
\* it allocated; a print addition-call loads that slot of its own addition,
\* passes the loaded value to printf and empties PreviousVariable, whatever
\* statements came before.
C28_PrintsOwnAddition ==
  [][(AddsAtHand /\ pc' \notin {"Returned", "GeneratePanicked"})
       => LET n == NodeAtHand
              body == funcs[FunctionAtHand].Body
              after == funcs'[FunctionAtHand].Body
              add == IF n.node = "Add" THEN n ELSE n.AddOperationNode
              slot == Len(body) + 2
              previous == IF pc = "FunctionBody" THEN currentFunctionScope'.PreviousVariable
                          ELSE mainFunctionScope'.PreviousVariable
              printed == n.node = "Caller" /\ n.FunctionName = <<"p", "r", "i", "n", "t", "f">>
          IN /\ after[Len(body) + 1] =
                  [op |-> "add", name |-> <<>>,
                   args |-> << [k |-> "const", v |-> add.LeftValue.v],
                               [k |-> "const", v |-> add.RightValue.v] >>]
             /\ after[slot].op = "alloca"
             /\ after[Len(body) + 3] =
                  [op |-> "store", name |-> <<>>,
                   args |-> << [k |-> "inst", v |-> Len(body) + 1], [k |-> "inst", v |-> slot] >>]
             /\ ~printed => previous = slot
             /\ printed =>
                  /\ Len(after) = Len(body) + 6
                  /\ after[Len(body) + 5].op = "load"
                  /\ after[Len(body) + 5].args = << [k |-> "inst", v |-> slot] >>
                  /\ after[Len(body) + 6].op = "call"
                  /\ after[Len(body) + 6].args =
                       << [k |-> "func", v |-> 2], [k |-> "inst", v |-> Len(body) + 4],
                          [k |-> "inst", v |-> Len(body) + 5] >>
                  /\ previous = 0]_vars

\* C28 witness: GenerateLLVMIR has returned the module of
\* `2 + 2 function f(){} f(1 + 2) printf(1 + 2)`: the print loads the slot of
\* its own addition, the third of main.
C28_Witness ==
  /\ pc = "Returned"
  /\ result.err = NoGenError
  /\ Len(parsed.nodes) = 4
  /\ parsed.nodes[1].node = "Add"
  /\ parsed.nodes[3].node = "Caller" /\ parsed.nodes[3].isParameterOperation
  /\ parsed.nodes[4].node = "Caller" /\ parsed.nodes[4].isParameterOperation
  /\ Len(result.ir[1].Body) = 14
  /\ result.ir[1].Body[9].op = "alloca"
  /\ result.ir[1].Body[12].op = "load"
  /\ result.ir[1].Body[12].args = << [k |-> "inst", v |-> 9] >>
  /\ mainFunctionScope.PreviousVariable = 0


(***************************************************************************)
(* C29: successive compilations                                            *)
(***************************************************************************)
\* The earlier compilation succeeded on a unit that declares name.
DeclaredEarlier(name) ==
  /\ first.result.err = NoGenError
  /\ first.result.ir # <<>>
  /\ \E j \in 1..Len(first.parsed.nodes) :
        /\ first.parsed.nodes[j].node = "Function"
        /\ first.parsed.nodes[j].Name = name

\* Between its entry and its return, GenerateLLVMIR finds in globalScope the
\* printf and the format_string of the module of this run.
GlobalsOfThisModule ==
  (pc \in {"GenerateLLVMIR", "FunctionBody"} \/ (pc = "Returned" /\ funcs # <<>>))
    => /\ globalScope.Callers[<<"p", "r", "i", "n", "t", "f">>].module = run
       /\ globalScope.Globals["format_string"].module = run

\* In a later compilation a call of a function that only the earlier unit
\* declared fails with 'caller not found'.
EarlierFunctionNotCallable ==
  (/\ run = 3
   /\ pc = "GenerateLLVMIR"
   /\ gi < Len(parsed.nodes)
   /\ parsed.nodes[gi + 1].node = "Caller"
   /\ parsed.nodes[gi + 1].FunctionName # <<"p", "r", "i", "n", "t", "f">>
   /\ ~DeclaredBefore(parsed.nodes[gi + 1].FunctionName, gi)
   /\ DeclaredEarlier(parsed.nodes[gi + 1].FunctionName))
    => /\ pc' = "Returned"
       /\ result'.err = [msg |-> "caller not found in scope",
                         name |-> parsed.nodes[gi + 1].FunctionName]
       /\ result'.ir = <<>>

\* C29: successive compilations in one process do not contaminate each
\* other: a function declared in one GenerateLLVMIR call is not callable in
\* a later call that does not declare it, and the printf and the
\* format_string a call uses are those of its own module.
C29_NoCrossContamination ==
  []GlobalsOfThisModule /\ [][EarlierFunctionNotCallable]_vars

\* C29 witness: after a unit that declares f compiled, the later unit
\* `let x = 1 printf(x) f()` has printed x through the printf of its own
\* module and failed at the call of f.
C29_Witness ==
  /\ run = 3
  /\ pc = "Returned"
  /\ DeclaredEarlier(<<"f">>)
  /\ result.err = [msg |-> "caller not found in scope", name |-> <<"f">>]
  /\ Len(funcs[1].Body) = 5
  /\ funcs[1].Body[5].op = "call"
  /\ globalScope.Callers[<<"p", "r", "i", "n", "t", "f">>].module = 3


(***************************************************************************)
(* C30: integer literals outside the range of int32                        *)
(***************************************************************************)
\* Literals outside [-2^31, 2^31 - 1], each with its value modulo 2^32 read
\* as a signed 32-bit integer.
Wrapped ==
  { << <<"4", "2", "9", "4", "9", "6", "7", "2", "9", "7">>, 1 >>,
    << <<"2", "1", "4", "7", "4", "8", "3", "6", "4", "8">>, -2147483647 - 1 >>,
    << <<"-", "2", "1", "4", "7", "4", "8", "3", "6", "4", "9">>, 2147483647 >>,
    << <<"4", "2", "9", "4", "9", "6", "7", "2", "9", "6">>, 0 >>,
    << <<"4", "2", "9", "4", "9", "6", "7", "2", "9", "8">>, 2 >> }

\* The token at index i of tks is such a literal; the value it wraps to.
HasWrapped(tks, i) ==
  HasType(tks, i, TokenIdentifierType) /\ \E p \in Wrapped : p[1] = tks[i + 1].Value
WrappedAt(tks, i) == (CHOOSE p \in Wrapped : p[1] = tks[i + 1].Value)[2]

\* The statement at index i: a let of a wrapped literal; an addition of two;
\* a call whose one argument is one; a for with an empty body whose initial
\* value and bound are wrapped literals.
WideLet(tks, i) ==
  /\ HasType(tks, i, TokenLetType) /\ HasType(tks, i + 1, TokenIdentifierType)
  /\ HasType(tks, i + 2, TokenEqualsType) /\ HasWrapped(tks, i + 3)
WideAdd(tks, i) ==
  HasWrapped(tks, i) /\ HasType(tks, i + 1, TokenAddType) /\ HasWrapped(tks, i + 2)
WideCall(tks, i) ==
  /\ HasType(tks, i, TokenIdentifierType) /\ HasType(tks, i + 1, TokenOpenParenthesisType)
  /\ HasWrapped(tks, i + 2) /\ HasType(tks, i + 3, TokenCloseParenthesisType)
WideFor(tks, i) ==
  /\ \A k \in 0..12 : ForExpected(tks, i, k)
  /\ HasWrapped(tks, i + 3) /\ HasWrapped(tks, i + 7)
  /\ HasType(tks, i + 13, TokenCloseCurlyBracketType)

\* C30: an integer literal outside [-2^31, 2^31 - 1] raises no error in
\* parseLet, parseAddOperation, parseCaller and parseFor; the node stores the
\* literal reduced modulo 2^32 and read as a signed 32-bit integer.
C30_LiteralsWrap ==
  [][(pc = "Parse" /\ index < Len(tokens) /\ iterations < MaxIterations)
       => LET n == nodes'[Len(nodes) + 1]
              int32(v) == [t |-> "int32", v |-> v]
          IN /\ WideLet(tokens, index) =>
                  /\ pc' = "Parse" /\ Len(nodes') = Len(nodes) + 1 /\ index' = index + 4
                  /\ n.node = "Let"
                  /\ n.Value = int32(WrappedAt(tokens, index + 3))
             /\ WideAdd(tokens, index) =>
                  /\ pc' = "Parse" /\ Len(nodes') = Len(nodes) + 1 /\ index' = index + 3
                  /\ n.node = "Add"
                  /\ n.LeftValue = int32(WrappedAt(tokens, index))
                  /\ n.RightValue = int32(WrappedAt(tokens, index + 2))
             /\ WideCall(tokens, index) =>
                  /\ pc' = "Parse" /\ Len(nodes') = Len(nodes) + 1 /\ index' = index + 4
                  /\ n.node = "Caller"
                  /\ Len(n.Parameters) = 1
                  /\ n.Parameters[1].Value = int32(WrappedAt(tokens, index + 2))
             /\ WideFor(tokens, index) =>
                  /\ pc' = "Parse" /\ Len(nodes') = Len(nodes) + 1 /\ index' = index + 14
                  /\ n.node = "For"
                  /\ n.Init.Value = int32(WrappedAt(tokens, index + 3))
                  /\ n.Condition.RightValue = int32(WrappedAt(tokens, index + 7))]_vars

\* C30 witness: Parse has returned the five nodes of the program of wide
\* literals, the let holding 1 for 4294967297 and the addition -2^31 and
\* 2^31 - 1 for 2147483648 and -2147483649.
C30_Witness ==
  /\ pc = "ParseReturned"
  /\ parsed.err = NoError
  /\ Len(parsed.nodes) = 5
  /\ tokens[4].Value = <<"4", "2", "9", "4", "9", "6", "7", "2", "9", "7">>
  /\ parsed.nodes[1].node = "Let" /\ parsed.nodes[1].Value.v = 1
  /\ parsed.nodes[2].node = "Add"
  /\ parsed.nodes[2].LeftValue.v = -2147483647 - 1
  /\ parsed.nodes[2].RightValue.v = 2147483647
  /\ parsed.nodes[3].node = "For" /\ parsed.nodes[3].Init.Value.v = 0
  /\ parsed.nodes[5].node = "Caller" /\ parsed.nodes[5].Parameters[1].Value.v = 2

====
